---- MODULE Spec2Model ----
(***************************************************************************)
(* logdot-go: the batch state machines of BoundMetrics (metrics.go) and    *)
(* Logger (logger.go) and the retrying transport HTTPClient (http.go).     *)
(*                                                                         *)
(* A critical section (Lock ... Unlock of the instance's mutex) is one     *)
(* step; a statement that touches a shared field outside the mutex is a    *)
(* step of its own; a network request is in flight while a goroutine sits  *)
(* at one of the "..._post" locations.                                     *)
(***************************************************************************)
EXTENDS Integers, Sequences, FiniteSets, TLC

\* ------------------------------------------------------------------ bounds
MaxMetricQueue == 2     \* Add/AddMetric are offered while len(batchQueue) is below this
MaxLogQueue == 2        \* Log is offered in batch mode while len(batchQueue) is below this
MaxAttemptsBound == 3   \* largest RetryConfig.MaxAttempts of a call that is run to its end
MaxLoggers == 4         \* Loggers of one family: the root and those WithContext returned
MaxMaps == 5            \* maps allocated for one family: contexts and GetContext results
MaxBackoffAttempt == 34 \* largest attempt index calculateBackoff is applied to
MaxNested == 2          \* calls of Handle made from inside one Handle call

\* ------------------------------------------------------- values and inputs
Caller == "main"                  \* the goroutine of the single-caller specification
Threads == {"g1", "g2"}           \* the goroutines that share one client
Goroutines == Threads \cup {Caller}

MetricNames == {"cpu", "mem"}
MetricUnits == {"ms"}
MetricValues == {1, 2}
LogMessages == {"m1"}
LogLevels == {"debug", "info", "warn", "error"}
Statuses == {200, 201, 204, 500}  \* status codes the server answers with

NoCode == -1                      \* lastHTTPCode before any response
NilErr == "nil"                   \* a nil error return

ErrSendInBatch == "cannot use Send() in batch mode"
ErrNotSingle == "not in single-metric batch mode"
ErrNotMulti == "not in multi-metric batch mode"
ErrTransport == "request failed"
ErrTorn == "<torn string>"        \* a string header mixed from two racing stores

\* Go maps and slices: nil is told apart from empty.
NilMap == [isNil |-> TRUE, kv |-> <<>>]
EmptyMap == [isNil |-> FALSE, kv |-> <<>>]
OneTag == [isNil |-> FALSE, kv |-> [k \in {"env"} |-> "prod"]]
TagMaps == {NilMap, EmptyMap, OneTag}
NilSlice == [isNil |-> TRUE, items |-> <<>>]

\* ----------------------------------------------------------------- state
VARIABLES
    client,     \* which client this run constructed and calls: the two share no state
    b,          \* the BoundMetrics instance (its mutable fields)
    l,          \* the Logger instance (its mutable fields)
    pc,         \* pc[g]: where goroutine g is inside a call ("idle": in no call)
    frame,      \* frame[g]: local variables of g's call in progress
    ret,        \* what the caller's most recent call returned: [op, err, from (the mode it returned in)]
    addsSinceBC,   \* successful Add calls since the last BeginBatch/ClearBatch
    addsSinceBCE,  \* successful Add calls since the last BeginBatch/ClearBatch/EndBatch
    h,          \* one doWithRetry call of the transport
    metrics,    \* the Metrics instance: lastError, lastHTTPCode, and of its call in
                \*   progress (or last call): the operation called (op), the Get and
                \*   Post requests it issued (gets, posts), what its lookup gave
                \*   (lookup) and what it returned (result)
    lastResponse,  \* history: the status code of the response that the Metrics and
                \*   the BoundMetrics instance obtained most recently (NoCode: none)
    mw,         \* a Middleware(config) instance, its middlewareState and, per
                \*   goroutine, the request that the handler it returned is serving
    sg,         \* slogSending, the keys of the package's sync.Map, and per
                \*   goroutine its SlogHandler.Handle call in progress
    fam         \* the Loggers made from one root by WithContext, and their maps:
                \*   loggers[i]  the i-th Logger: batchMode, batchQueue, logCtx (a map
                \*               reference), parent (the receiver of the WithContext
                \*               that made it); l holds batchMode and batchQueue of
                \*               the Logger the caller is calling, loggers[cur]
                \*   maps[r]     the contents of the map with reference r
                \*   held        references of the maps GetContext returned

vars == <<client, b, l, pc, frame, ret, addsSinceBC, addsSinceBCE, h, fam, mw, sg, metrics, lastResponse>>
clientVars == <<client, b, l, pc, frame, ret, addsSinceBC, addsSinceBCE, fam, mw, sg, metrics, lastResponse>>

NoFrame == [url |-> "", body |-> <<>>, name |-> "", err |-> NilErr, status |-> NoCode]
NoRet == [op |-> "none", err |-> NilErr, from |-> "Idle"]

\* ------------------------------------------------------------ pure helpers
\* formatTags: nil for a nil or empty map, else the "key:value" strings in
\* some order (Go's map iteration order is not fixed).
Perms(S) ==
    {f \in [1..Cardinality(S) -> S] : \A i, j \in 1..Cardinality(S) : f[i] = f[j] => i = j}

formatTags(tags) ==
    IF tags.isNil \/ DOMAIN tags.kv = {}
    THEN {NilSlice}
    ELSE {[isNil |-> FALSE, items |-> [i \in DOMAIN p |-> p[i] \o ":" \o tags.kv[p[i]]]] :
             p \in Perms(DOMAIN tags.kv)}

\* The success test every caller of Post applies to the status code.
StatusOKAny2xx(status) == status >= 200 /\ status < 300
StatusOKOnly200(status) == status = 200
StatusOK(status) == status = 200 \/ status = 201

\* fmt.Sprintf("HTTP %d", resp.StatusCode), the lastError of a refused request.
ErrHTTP(status) == "HTTP " \o ToString(status)
\* fmt.Errorf("... failed with status %d", resp.StatusCode), the error returned.
ErrStatus(status) == "failed with status " \o ToString(status)

\* What one HTTPClient.Post call hands back to a client built with the default
\* retry configuration: an error, or a response with some status code.
PostOutcomes ==
    {[err |-> ErrTransport, status |-> NoCode]} \cup {[err |-> NilErr, status |-> s] : s \in Statuses}

\* --------------------------------------------------------------- HTTPClient
\* One call of doWithRetry (Post or Get) and the cancellation of its context.
\*   MaxAttempts  h.retry.MaxAttempts        bodyOK    json.Marshal(body) succeeds
\*   attempt      the loop variable           loc       where the call is
\*   status       resp.StatusCode after client.Do returned a response
\*   dr           what doRequest returned: [err, status]
\*   lastErr      the variable lastErr        result    what doWithRetry returned
\*   ctxDone      ctx.Done() is closed
\*   attempts     client.Do calls made        waits     backoff waits that ran out
ErrMarshal == "failed to marshal body"
ErrNetwork == "request failed: connection error"
ErrDoCanceled == "request failed: context canceled"
ErrRead == "failed to read response"
ErrCanceled == "context canceled"
ErrReadCanceled == "failed to read response: context canceled"

\* fmt.Errorf("request failed: %w", err): what client.Do fails with
DoErrorGeneric(ctxDone) == ErrNetwork
DoError(ctxDone) == IF ctxDone THEN ErrDoCanceled ELSE ErrNetwork
\* fmt.Errorf("failed to read response: %w", err): what io.ReadAll fails with
ReadError(ctxDone) == IF ctxDone THEN ErrReadCanceled ELSE ErrRead
\* errors.Is(err, ctx.Err()): ctx.Err() itself, or an error that wraps it with %w
IsCtxErr(err) == err \in {ErrCanceled, ErrDoCanceled, ErrReadCanceled}

\* time.Duration values (int64 nanoseconds), kept at their true width by
\* writing them as floor(2^exp * (40 + f) / 40) with exp >= 6 and 0 <= f < 40,
\* so that two values are equal exactly when their (exp, f) are; the two ends
\* of the int64 range are values of their own.
Dur(e, f) == [k |-> "v", exp |-> e, f |-> f]
MinInt64 == [k |-> "min", exp |-> 63, f |-> 0]     \* -2^63
MaxInt64 == [k |-> "max", exp |-> 63, f |-> 0]     \* 2^63 - 1
NoDelay == Dur(0, 0)

\* RetryConfig.BaseDelay and MaxDelay: 2^30 ns (1.07 s), 2^40 ns (18 min);
\* 2^35 ns (34 s), 2^45 ns (9.8 h)
BaseDelayExps == {30, 40}
MaxDelayExps == {35, 45}
DefaultRetry == [BaseDelay |-> Dur(30, 0), MaxDelay |-> Dur(35, 0)]
RetryConfigs == {[BaseDelay |-> Dur(bd, 0), MaxDelay |-> Dur(md, 0)] : bd \in BaseDelayExps, md \in MaxDelayExps}
\* rand.Float64() draws r/4
JitterDraws == 0..3

\* x > y for Durations (y below 2^63 - 1, as every MaxDelay here is)
DurGreater(x, y) ==
    CASE x.k = "min" -> FALSE
      [] x.k = "max" -> TRUE
      [] OTHER -> x.exp > y.exp \/ (x.exp = y.exp /\ x.f > y.f)

\* time.Duration(x) of the float64 x = 2^e * (40 + f) / 40: the truncated
\* value when int64 holds it; when it does not, the result is implementation-
\* dependent (Go spec, Conversions): amd64 gives -2^63, arm64 saturates.
ToDuration(e, f) == IF e <= 62 THEN {Dur(e, f)} ELSE {MinInt64, MaxInt64}

\* calculateBackoff(attempt) with the jitter draw r/4: the set of values the
\* build can return.
\*   delay := float64(BaseDelay) * math.Pow(2, attempt)     = 2^(exp + attempt)
\*   jitter := rand.Float64() * 0.3 * delay                 = delay * 3r/40
\*   total := time.Duration(delay + jitter); if total > MaxDelay { return MaxDelay }
calculateBackoff(retry, attempt, r) ==
    {IF DurGreater(total, retry.MaxDelay) THEN retry.MaxDelay ELSE total :
        total \in ToDuration(retry.BaseDelay.exp + attempt, 3 * r)}

\* The select of a goroutine parked on ctx.Done() and the timer takes the
\* case of the channel that becomes ready first.
ParkedWakeTimerOnly(ctxDone) == "timer"
ParkedWake(ctxDone) == IF ctxDone THEN "done" ELSE "timer"

\*   retry        h.retry.BaseDelay, MaxDelay  delay     what calculateBackoff returned
\*   delayIdx     the attempt index it was called with
\*   cancelAt     where the call was when its context was cancelled
NoCall ==
    [MaxAttempts |-> 0, bodyOK |-> TRUE, attempt |-> 0, loc |-> "idle", status |-> NoCode,
     dr |-> [err |-> NilErr, status |-> NoCode], lastErr |-> NilErr,
     result |-> [err |-> NilErr, status |-> NoCode], ctxDone |-> FALSE, attempts |-> 0, waits |-> 0,
     retry |-> DefaultRetry, delay |-> NoDelay, delayIdx |-> -1, cancelAt |-> "never"]

\* doWithRetry returns the response of an attempt when doRequest gave no error.
AttemptSucceededBelow500(dr) == dr.err = NilErr /\ dr.status < 500
AttemptSucceeded(dr) == dr.err = NilErr
\* if attempt < h.retry.MaxAttempts-1: a backoff wait follows the failed attempt
WaitsAfterEveryAttempt(attempt, maxAttempts) == attempt < maxAttempts
WaitsAfter(attempt, maxAttempts) == attempt < maxAttempts - 1

\* Post / Get: doWithRetry is entered; var lastErr error; attempt := 0
HTTPClient_doWithRetry(retry, maxAttempts, bodyOK) ==
    /\ h.loc \in {"idle", "returned"}
    /\ h' = [NoCall EXCEPT !.retry = retry, !.MaxAttempts = maxAttempts, !.bodyOK = bodyOK, !.loc = "loop"]
    /\ UNCHANGED clientVars

\* for ...; attempt < h.retry.MaxAttempts; ... and, after the loop, return nil, nil, lastErr
HTTPClient_loop ==
    /\ h.loc = "loop"
    /\ IF h.attempt < h.MaxAttempts
       THEN h' = [h EXCEPT !.loc = "marshal"]
       ELSE h' = [h EXCEPT !.loc = "returned", !.result = [err |-> h.lastErr, status |-> NoCode]]
    /\ UNCHANGED clientVars

\* doRequest: json.Marshal(body)
HTTPClient_doRequest_marshal ==
    /\ h.loc = "marshal"
    /\ IF h.bodyOK
       THEN h' = [h EXCEPT !.loc = "do"]
       ELSE h' = [h EXCEPT !.loc = "check", !.dr = [err |-> ErrMarshal, status |-> NoCode]]
    /\ UNCHANGED clientVars

\* doRequest: h.client.Do(req) is called; a context that is already done fails it at once
HTTPClient_doRequest_do ==
    /\ h.loc = "do"
    /\ IF h.ctxDone
       THEN h' = [h EXCEPT !.loc = "check", !.attempts = @ + 1,
                           !.dr = [err |-> DoError(TRUE), status |-> NoCode]]
       ELSE h' = [h EXCEPT !.loc = "inflight", !.attempts = @ + 1]
    /\ UNCHANGED clientVars

\* doRequest: h.client.Do(req) returns a response with a status code
HTTPClient_doRequest_response(status) ==
    /\ h.loc = "inflight"
    /\ h' = [h EXCEPT !.loc = "read", !.status = status]
    /\ UNCHANGED clientVars

\* doRequest: h.client.Do(req) returns an error
HTTPClient_doRequest_failed ==
    /\ h.loc = "inflight"
    /\ h' = [h EXCEPT !.loc = "check",
                       !.dr = [err |-> DoError(h.ctxDone), status |-> NoCode]]
    /\ UNCHANGED clientVars

\* doRequest: io.ReadAll(resp.Body) and the return
HTTPClient_doRequest_read(ok) ==
    /\ h.loc = "read"
    /\ IF ok
       THEN h' = [h EXCEPT !.loc = "check", !.dr = [err |-> NilErr, status |-> h.status]]
       ELSE h' = [h EXCEPT !.loc = "check", !.dr = [err |-> ReadError(h.ctxDone), status |-> NoCode]]
    /\ UNCHANGED clientVars

\* the loop body after doRequest: return the response, or note the error
\* and wait (all but the last attempt) or go on
HTTPClient_afterRequest ==
    /\ h.loc = "check"
    /\ IF AttemptSucceeded(h.dr)
       THEN h' = [h EXCEPT !.loc = "returned", !.result = h.dr]
       ELSE IF WaitsAfter(h.attempt, h.MaxAttempts)
            THEN h' = [h EXCEPT !.lastErr = h.dr.err, !.loc = "backoff"]
            ELSE h' = [h EXCEPT !.lastErr = h.dr.err, !.attempt = @ + 1, !.loc = "loop"]
    /\ UNCHANGED clientVars

\* delay := h.calculateBackoff(attempt)
HTTPClient_calculateBackoff(r) ==
    /\ h.loc = "backoff"
    /\ \E d \in calculateBackoff(h.retry, h.attempt, r) :
          h' = [h EXCEPT !.delay = d, !.delayIdx = h.attempt, !.loc = "select"]
    /\ UNCHANGED clientVars

\* select is entered: with the context not done the goroutine parks; with the
\* context already done it returns ctx.Err(), unless the timer is ready as
\* well and select picks that case
HTTPClient_select ==
    /\ h.loc = "select"
    /\ IF ~h.ctxDone
       THEN h' = [h EXCEPT !.loc = "wait"]
       ELSE \/ h' = [h EXCEPT !.loc = "returned", !.result = [err |-> ErrCanceled, status |-> NoCode]]
            \/ h' = [h EXCEPT !.waits = @ + 1, !.attempt = @ + 1, !.loc = "loop"]
    /\ UNCHANGED clientVars

\* select: case <-time.After(delay)
HTTPClient_backoff_elapsed ==
    /\ h.loc = "wait"
    /\ ParkedWake(h.ctxDone) = "timer"
    /\ h' = [h EXCEPT !.waits = @ + 1, !.attempt = @ + 1, !.loc = "loop"]
    /\ UNCHANGED clientVars

\* select: case <-ctx.Done(): return nil, nil, ctx.Err()
HTTPClient_backoff_canceled ==
    /\ h.loc = "wait"
    /\ ParkedWake(h.ctxDone) = "done"
    /\ h' = [h EXCEPT !.loc = "returned", !.result = [err |-> ErrCanceled, status |-> NoCode]]
    /\ UNCHANGED clientVars

\* the caller cancels the context, or its deadline passes
Cancel ==
    /\ h.loc \notin {"idle", "returned"}
    /\ ~h.ctxDone
    /\ h' = [h EXCEPT !.ctxDone = TRUE, !.cancelAt = h.loc]
    /\ UNCHANGED clientVars

NextTransport ==
    \/ \E m \in -1..MaxAttemptsBound, ok \in BOOLEAN : HTTPClient_doWithRetry(DefaultRetry, m, ok)
    \/ HTTPClient_loop
    \/ HTTPClient_doRequest_marshal
    \/ HTTPClient_doRequest_do
    \/ \E s \in Statuses : HTTPClient_doRequest_response(s)
    \/ HTTPClient_doRequest_failed
    \/ \E ok \in BOOLEAN : HTTPClient_doRequest_read(ok)
    \/ HTTPClient_afterRequest
    \/ \E r \in JitterDraws : HTTPClient_calculateBackoff(r)
    \/ HTTPClient_select
    \/ HTTPClient_backoff_elapsed
    \/ HTTPClient_backoff_canceled
    \/ Cancel

\* ------------------------------------------------------------ BoundMetrics
\* The three batch states of the two flags.
Mode ==
    IF b.batchMode
    THEN (IF b.multiBatchMode THEN "MultiBatch" ELSE "SingleBatch")
    ELSE (IF b.multiBatchMode THEN "Invalid" ELSE "Idle")

BatchSize == Len(b.batchQueue)

\* The mode checks of the three emitting operations.
SendRejectedInMultiOnly == b.multiBatchMode
SendRejected == b.batchMode
AddRejectedOutsideBatch == ~b.batchMode
AddRejected == ~b.batchMode \/ b.multiBatchMode
AddMetricRejected == ~b.multiBatchMode
SendBatchNoopOutsideBatch == ~b.batchMode
SendBatchNoop == ~b.batchMode \/ Len(b.batchQueue) = 0

\* ---------------------------------------------------------------- messages
\* A Go string whose length matters, as runs of bytes: n bytes of class c,
\* where c is "a" (a one-byte character), "L2", "L3", "L4" (the first byte of
\* a 2-, 3-, 4-byte character), "c" (a continuation byte) or "x" (a byte no
\* UTF-8 encoding contains); id names the text the run spells.
Bytes(c, n, id) == IF n = 0 THEN <<>> ELSE <<[c |-> c, n |-> n, id |-> id]>>

maxMessageBytes == 16000

\* len(msg)
RECURSIVE ByteLen(_)
ByteLen(msg) == IF msg = <<>> THEN 0 ELSE msg[1].n + ByteLen(Tail(msg))

\* msg[:k], for k <= len(msg)
RECURSIVE Prefix(_, _)
Prefix(msg, k) ==
    IF k = 0 \/ msg = <<>> THEN <<>>
    ELSE IF msg[1].n <= k THEN <<msg[1]>> \o Prefix(Tail(msg), k - msg[1].n)
    ELSE <<[msg[1] EXCEPT !.n = k]>>

\* utf8.ValidString: every first byte is followed by its continuation bytes,
\* and no continuation byte stands elsewhere
ValidString(msg) ==
    LET RECURSIVE Scan(_, _)
        Scan(i, need) ==
            IF i > Len(msg) THEN need = 0
            ELSE CASE msg[i].c = "a" -> need = 0 /\ Scan(i + 1, 0)
                   [] msg[i].c = "c" -> msg[i].n <= need /\ Scan(i + 1, need - msg[i].n)
                   [] msg[i].c = "L2" -> need = 0 /\ msg[i].n = 1 /\ Scan(i + 1, 1)
                   [] msg[i].c = "L3" -> need = 0 /\ msg[i].n = 1 /\ Scan(i + 1, 2)
                   [] msg[i].c = "L4" -> need = 0 /\ msg[i].n = 1 /\ Scan(i + 1, 3)
                   [] OTHER -> FALSE
    IN  Scan(1, 0)

\* "... [truncated]"
TruncatedMarker == [c |-> "a", n |-> 15, id |-> "... [truncated]"]

\* truncateMessage. The loop removes one byte at a time while the string is
\* not valid; bytes of a trailing run of one-byte characters are removed
\* together, since removing some of them leaves an invalid string invalid.
truncateMessageSplits(msg) ==
    IF ByteLen(msg) <= maxMessageBytes THEN msg
    ELSE Prefix(msg, maxMessageBytes) \o <<TruncatedMarker>>
truncateMessage(msg) ==
    IF ByteLen(msg) <= maxMessageBytes THEN msg
    ELSE LET DropLast(t) ==
                 IF t[Len(t)].c = "a" \/ t[Len(t)].n = 1
                 THEN SubSeq(t, 1, Len(t) - 1)
                 ELSE [t EXCEPT ![Len(t)].n = @ - 1]
             RECURSIVE WalkBack(_)
             WalkBack(t) ==
                 IF Len(t) > 0 /\ ~ValidString(t) THEN WalkBack(DropLast(t)) ELSE t
         IN  WalkBack(Prefix(msg, maxMessageBytes)) \o <<TruncatedMarker>>

\* Send, SendBatch store lastError after they released the mutex: locations
\* from which the next step of a goroutine is such a store.
PoisedAtUnlockedStore(g) ==
    \/ pc[g] \in {"send_reject", "send_err", "send_status", "sb_err", "sb_done"}
    \/ pc[g] = "sb_status" /\ ~StatusOK(frame[g].status)

\* The values a store of msg to lastError by g can leave behind: a string is
\* two words, and a store that races with an unlocked store of another
\* goroutine can leave a header that is neither string.
StoreLastError(g, msg) ==
    IF \E u \in Goroutines \ {g} : PoisedAtUnlockedStore(u) THEN {msg, ErrTorn} ELSE {msg}

\* sync.Mutex: mu is Unlocked or the goroutine that holds it. A critical
\* section that ends before the step does leaves mu Unlocked; Lock() is
\* possible only on an Unlocked mutex (it blocks otherwise).
Unlocked == "unlocked"
CanLockAlways(inst) == TRUE
CanLock(inst) == inst.mu = Unlocked
\* the Unlock() that ends the critical section before a call posts
HeldAcrossPost(g) == g
UnlockBeforePost(g) == Unlocked

\* Goroutine g is in no call, and the client of this run is c (a run with a
\* middleware has both clients).
Idle(g, c) == client \in {c, "Middleware"} /\ pc[g] = "idle"

Return(g, op, err, from) ==
    /\ pc' = [pc EXCEPT ![g] = "idle"]
    /\ frame' = [frame EXCEPT ![g] = NoFrame]
    /\ ret' = IF g = Caller THEN [op |-> op, err |-> err, from |-> from] ELSE ret

Goto(g, loc, fr) ==
    /\ pc' = [pc EXCEPT ![g] = loc]
    /\ frame' = [frame EXCEPT ![g] = fr]
    /\ ret' = ret

\* The fields each operation of BoundMetrics assigns.
BeginBatchKeepsMulti(metricName, unit) ==
    [b EXCEPT !.batchMode = TRUE, !.batchMetricName = metricName, !.batchUnit = unit,
              !.batchQueue = <<>>]
BeginBatchFields(metricName, unit) ==
    [b EXCEPT !.batchMode = TRUE, !.multiBatchMode = FALSE, !.batchMetricName = metricName,
              !.batchUnit = unit, !.batchQueue = <<>>]
BeginMultiBatchFields ==
    [b EXCEPT !.batchMode = TRUE, !.multiBatchMode = TRUE, !.batchQueue = <<>>]
EndBatchKeepsQueue == [b EXCEPT !.batchMode = FALSE, !.multiBatchMode = FALSE]
EndBatchFields ==
    [b EXCEPT !.batchMode = FALSE, !.multiBatchMode = FALSE, !.batchQueue = <<>>]
ClearBatchKeepsQueue == b
ClearBatchFields ==
    [b EXCEPT !.batchQueue = <<>>]

\* func (b *BoundMetrics) BeginBatch(metricName, unit string)
BoundMetrics_BeginBatch(g, metricName, unit) ==
    /\ Idle(g, "BoundMetrics")
    /\ CanLock(b)
    /\ b' = BeginBatchFields(metricName, unit)
    /\ addsSinceBC' = 0
    /\ addsSinceBCE' = 0
    /\ Return(g, "BeginBatch", NilErr, Mode)
    /\ UNCHANGED <<client, metrics, lastResponse, mw, sg, fam, l, h>>

\* func (b *BoundMetrics) Add(value float64, tags map[string]interface{}) error
BoundMetrics_Add(g, value, tags) ==
    /\ Idle(g, "BoundMetrics")
    /\ CanLock(b)
    /\ IF AddRejected
       THEN /\ \E e \in StoreLastError(g, ErrNotSingle) : b' = [b EXCEPT !.lastError = e]
            /\ Return(g, "Add", ErrNotSingle, Mode)
            /\ UNCHANGED <<addsSinceBC, addsSinceBCE>>
       ELSE /\ Len(b.batchQueue) < MaxMetricQueue
            /\ \E ft \in formatTags(tags) :
                 b' = [b EXCEPT !.batchQueue = Append(@,
                         [Name |-> b.batchMetricName, Value |-> value,
                          Unit |-> b.batchUnit, Tags |-> ft])]
            /\ Return(g, "Add", NilErr, Mode)
            /\ addsSinceBC' = addsSinceBC + 1
            /\ addsSinceBCE' = addsSinceBCE + 1
    /\ UNCHANGED <<client, metrics, lastResponse, mw, sg, fam, l, h>>

\* func (b *BoundMetrics) BeginMultiBatch()
BoundMetrics_BeginMultiBatch(g) ==
    /\ Idle(g, "BoundMetrics")
    /\ CanLock(b)
    /\ b' = BeginMultiBatchFields
    /\ Return(g, "BeginMultiBatch", NilErr, Mode)
    /\ UNCHANGED <<client, metrics, lastResponse, mw, sg, fam, l, h, addsSinceBC, addsSinceBCE>>

\* func (b *BoundMetrics) AddMetric(name, value, unit, tags) error
BoundMetrics_AddMetric(g, name, value, unit, tags) ==
    /\ Idle(g, "BoundMetrics")
    /\ CanLock(b)
    /\ IF AddMetricRejected
       THEN /\ \E e \in StoreLastError(g, ErrNotMulti) : b' = [b EXCEPT !.lastError = e]
            /\ Return(g, "AddMetric", ErrNotMulti, Mode)
       ELSE /\ Len(b.batchQueue) < MaxMetricQueue
            /\ \E ft \in formatTags(tags) :
                 b' = [b EXCEPT !.batchQueue = Append(@,
                         [Name |-> name, Value |-> value, Unit |-> unit, Tags |-> ft])]
            /\ Return(g, "AddMetric", NilErr, Mode)
    /\ UNCHANGED <<client, metrics, lastResponse, mw, sg, fam, l, h, addsSinceBC, addsSinceBCE>>

\* func (b *BoundMetrics) EndBatch()
BoundMetrics_EndBatch(g) ==
    /\ Idle(g, "BoundMetrics")
    /\ CanLock(b)
    /\ b' = EndBatchFields
    /\ addsSinceBCE' = 0
    /\ Return(g, "EndBatch", NilErr, Mode)
    /\ UNCHANGED <<client, metrics, lastResponse, mw, sg, fam, l, h, addsSinceBC>>

\* func (b *BoundMetrics) ClearBatch()
BoundMetrics_ClearBatch(g) ==
    /\ Idle(g, "BoundMetrics")
    /\ CanLock(b)
    /\ b' = ClearBatchFields
    /\ addsSinceBC' = 0
    /\ addsSinceBCE' = 0
    /\ Return(g, "ClearBatch", NilErr, Mode)
    /\ UNCHANGED <<client, metrics, lastResponse, mw, sg, fam, l, h>>

\* func (b *BoundMetrics) Send(ctx, name, value, unit, tags) error: the mode
\* check under the mutex, and the entry built after it.
BoundMetrics_Send(g, name, value, unit, tags) ==
    /\ Idle(g, "BoundMetrics")
    /\ CanLock(b)
    /\ IF SendRejected
       THEN /\ Goto(g, "send_reject", NoFrame)
            /\ b' = b
       ELSE /\ \E ft \in formatTags(tags) :
                 Goto(g, "send_post",
                      [NoFrame EXCEPT !.url = "/metrics",
                         !.body = <<[Name |-> name, Value |-> value, Unit |-> unit, Tags |-> ft]>>])
            /\ b' = [b EXCEPT !.mu = UnlockBeforePost(g)]
    /\ UNCHANGED <<client, metrics, lastResponse, fam, l, h, addsSinceBC, addsSinceBCE>>

\* b.lastError = "cannot use Send() in batch mode"; return the error
BoundMetrics_SendReject(g) ==
    /\ pc[g] = "send_reject"
    /\ \E e \in StoreLastError(g, ErrSendInBatch) : b' = [b EXCEPT !.lastError = e]
    /\ Return(g, "Send", ErrSendInBatch, Mode)
    /\ UNCHANGED <<client, metrics, lastResponse, mw, sg, fam, l, h, addsSinceBC, addsSinceBCE>>

\* resp, _, err := b.http.Post(ctx, reqURL, entry)
BoundMetrics_SendPost(g, o) ==
    /\ pc[g] = "send_post"
    /\ IF o.err # NilErr
       THEN /\ Goto(g, "send_err", [frame[g] EXCEPT !.err = o.err])
            /\ lastResponse' = lastResponse
       ELSE /\ Goto(g, "send_code", [frame[g] EXCEPT !.status = o.status])
            /\ lastResponse' = [lastResponse EXCEPT !.BoundMetrics = o.status]
    /\ UNCHANGED <<client, metrics, mw, sg, fam, b, l, h, addsSinceBC, addsSinceBCE>>

\* b.lastError = err.Error(); return err
BoundMetrics_SendErr(g) ==
    /\ pc[g] = "send_err"
    /\ \E e \in StoreLastError(g, frame[g].err) : b' = [b EXCEPT !.lastError = e]
    /\ Return(g, "Send", frame[g].err, Mode)
    /\ UNCHANGED <<client, metrics, lastResponse, mw, sg, fam, l, h, addsSinceBC, addsSinceBCE>>

\* b.mu.Lock(); b.lastHTTPCode = resp.StatusCode; b.mu.Unlock()
BoundMetrics_SendCodeOnSuccess(g) ==
    /\ pc[g] = "send_code"
    /\ CanLock(b)
    /\ b' = [b EXCEPT !.lastHTTPCode = IF StatusOK(frame[g].status) THEN frame[g].status ELSE @]
    /\ Goto(g, "send_status", frame[g])
    /\ UNCHANGED <<client, metrics, lastResponse, mw, sg, fam, l, h, addsSinceBC, addsSinceBCE>>
BoundMetrics_SendCode(g) ==
    /\ pc[g] = "send_code"
    /\ CanLock(b)
    /\ b' = [b EXCEPT !.lastHTTPCode = frame[g].status]
    /\ Goto(g, "send_status", frame[g])
    /\ UNCHANGED <<client, metrics, lastResponse, mw, sg, fam, l, h, addsSinceBC, addsSinceBCE>>

\* the status test of Send, the store to lastError and the return
BoundMetrics_SendStatus(g) ==
    /\ pc[g] = "send_status"
    /\ IF ~StatusOK(frame[g].status)
       THEN /\ \E e \in StoreLastError(g, ErrHTTP(frame[g].status)) :
                  b' = [b EXCEPT !.lastError = e]
            /\ Return(g, "Send", ErrStatus(frame[g].status), Mode)
       ELSE /\ \E e \in StoreLastError(g, "") : b' = [b EXCEPT !.lastError = e]
            /\ Return(g, "Send", NilErr, Mode)
    /\ UNCHANGED <<client, metrics, lastResponse, mw, sg, fam, l, h, addsSinceBC, addsSinceBCE>>

\* The payload SendBatch builds under the mutex: the per-entry name only in
\* multi-metric mode, the envelope name only in single-metric mode.
BatchMetricsPayloadNamesEntries ==
    [Name |-> IF ~b.multiBatchMode THEN b.batchMetricName ELSE "",
     Metrics |-> [i \in DOMAIN b.batchQueue |->
                    [Name |-> b.batchQueue[i].Name,
                     Value |-> b.batchQueue[i].Value,
                     Unit |-> b.batchQueue[i].Unit,
                     Tags |-> b.batchQueue[i].Tags]]]
BatchMetricsPayload ==
    [Name |-> IF ~b.multiBatchMode THEN b.batchMetricName ELSE "",
     Metrics |-> [i \in DOMAIN b.batchQueue |->
                    [Name |-> IF b.multiBatchMode THEN b.batchQueue[i].Name ELSE "",
                     Value |-> b.batchQueue[i].Value,
                     Unit |-> b.batchQueue[i].Unit,
                     Tags |-> b.batchQueue[i].Tags]]]

\* func (b *BoundMetrics) SendBatch(ctx) error: the no-op test and the copy
\* of the queue into the payload, under the mutex.
BoundMetrics_SendBatch(g) ==
    /\ Idle(g, "BoundMetrics")
    /\ CanLock(b)
    /\ IF SendBatchNoop
       THEN /\ Return(g, "SendBatch", NilErr, Mode)
            /\ b' = b
       ELSE /\ Goto(g, "sb_post",
                    [NoFrame EXCEPT !.url = "/metrics/batch",
                       !.name = BatchMetricsPayload.Name, !.body = BatchMetricsPayload.Metrics])
            /\ b' = [b EXCEPT !.mu = UnlockBeforePost(g)]
    /\ UNCHANGED <<client, metrics, lastResponse, mw, sg, fam, l, h, addsSinceBC, addsSinceBCE>>

\* resp, _, err := b.http.Post(ctx, reqURL, payload)
BoundMetrics_SendBatchPost(g, o) ==
    /\ pc[g] = "sb_post"
    /\ IF o.err # NilErr
       THEN /\ Goto(g, "sb_err", [frame[g] EXCEPT !.err = o.err])
            /\ lastResponse' = lastResponse
       ELSE /\ Goto(g, "sb_code", [frame[g] EXCEPT !.status = o.status])
            /\ lastResponse' = [lastResponse EXCEPT !.BoundMetrics = o.status]
    /\ UNCHANGED <<client, metrics, mw, sg, fam, b, l, h, addsSinceBC, addsSinceBCE>>

\* b.lastError = err.Error(); return err
BoundMetrics_SendBatchErr(g) ==
    /\ pc[g] = "sb_err"
    /\ \E e \in StoreLastError(g, frame[g].err) : b' = [b EXCEPT !.lastError = e]
    /\ Return(g, "SendBatch", frame[g].err, Mode)
    /\ UNCHANGED <<client, metrics, lastResponse, mw, sg, fam, l, h, addsSinceBC, addsSinceBCE>>

\* b.mu.Lock(); b.lastHTTPCode = resp.StatusCode; b.mu.Unlock()
BoundMetrics_SendBatchCode(g) ==
    /\ pc[g] = "sb_code"
    /\ CanLock(b)
    /\ b' = [b EXCEPT !.lastHTTPCode = frame[g].status]
    /\ Goto(g, "sb_status", frame[g])
    /\ UNCHANGED <<client, metrics, lastResponse, mw, sg, fam, l, h, addsSinceBC, addsSinceBCE>>

\* the status test of SendBatch: the failure return, or b.ClearBatch()
BoundMetrics_SendBatchStatus(g) ==
    /\ pc[g] = "sb_status"
    /\ IF ~StatusOK(frame[g].status)
       THEN /\ \E e \in StoreLastError(g, ErrHTTP(frame[g].status)) :
                  b' = [b EXCEPT !.lastError = e]
            /\ Return(g, "SendBatch", ErrStatus(frame[g].status), Mode)
            /\ UNCHANGED <<addsSinceBC, addsSinceBCE>>
       ELSE /\ CanLock(b)
            /\ b' = ClearBatchFields
            /\ addsSinceBC' = 0
            /\ addsSinceBCE' = 0
            /\ Goto(g, "sb_done", frame[g])
    /\ UNCHANGED <<client, metrics, lastResponse, mw, sg, fam, l, h>>

\* b.lastError = ""; return nil
BoundMetrics_SendBatchDone(g) ==
    /\ pc[g] = "sb_done"
    /\ \E e \in StoreLastError(g, "") : b' = [b EXCEPT !.lastError = e]
    /\ Return(g, "SendBatch", NilErr, Mode)
    /\ UNCHANGED <<client, metrics, lastResponse, mw, sg, fam, l, h, addsSinceBC, addsSinceBCE>>

\* ----------------------------------------------------------------- Metrics
\* What CreateEntity, GetEntityByName and GetOrCreateEntity return: an
\* *Entity ("": nil) and an error.
\* body: the response body is an APIResponse with an id ("id"), one without
\* ("noid"), or no JSON at all ("malformed").

\* CreateEntity, GetEntityByName, GetOrCreateEntity are called: up to the
\* request the call issues first, m.http.Get for a lookup (GetOrCreateEntity
\* calls GetEntityByName first), m.http.Post for CreateEntity.
Metrics_requestCreatesFirst(g, op) ==
    /\ client \in {"BoundMetrics", "Middleware"}
    /\ pc[g] = "idle"
    /\ metrics' = [metrics EXCEPT !.op = op,
                                  !.gets = IF op # "GetEntityByName" THEN 0 ELSE 1,
                                  !.posts = IF op # "GetEntityByName" THEN 1 ELSE 0,
                                  !.lookup = [entity |-> "", err |-> NilErr],
                                  !.result = [entity |-> "", err |-> NilErr]]
    /\ Goto(g, IF op # "GetEntityByName" THEN "ce_post" ELSE "gbn_get",
            [NoFrame EXCEPT !.url = IF op # "GetEntityByName" THEN "/entities" ELSE "/entities/by-name",
                            !.name = op])
    /\ UNCHANGED <<client, lastResponse, mw, sg, fam, b, l, h, addsSinceBC, addsSinceBCE>>
Metrics_request(g, op) ==
    /\ client \in {"BoundMetrics", "Middleware"}
    /\ pc[g] = "idle"
    /\ metrics' = [metrics EXCEPT !.op = op,
                                  !.gets = IF op = "CreateEntity" THEN 0 ELSE 1,
                                  !.posts = IF op = "CreateEntity" THEN 1 ELSE 0,
                                  !.lookup = [entity |-> "", err |-> NilErr], !.result = [entity |-> "", err |-> NilErr]]
    /\ Goto(g, IF op = "CreateEntity" THEN "ce_post" ELSE "gbn_get",
            [NoFrame EXCEPT !.url = IF op = "CreateEntity" THEN "/entities" ELSE "/entities/by-name",
                            !.name = op])
    /\ UNCHANGED <<client, lastResponse, mw, sg, fam, b, l, h, addsSinceBC, addsSinceBCE>>

\* GetEntityByName from the return of m.http.Get on; called by
\* GetOrCreateEntity, a lookup that gave no entity goes on to CreateEntity,
\* up to its m.http.Post.
Metrics_GetEntityByName(g, o, body) ==
    /\ pc[g] = "gbn_get"
    /\ LET found == IF o.err # NilErr THEN [entity |-> "", err |-> o.err]
                    ELSE IF o.status # 200 THEN [entity |-> "", err |-> ErrStatus(o.status)]
                    ELSE IF body = "malformed" THEN [entity |-> "", err |-> "unexpected end of JSON input"]
                    ELSE IF body = "noid" THEN [entity |-> "", err |-> "no entity ID in response"]
                    ELSE [entity |-> "e1", err |-> NilErr]
           lastError == IF o.err # NilErr THEN o.err
                        ELSE IF o.status # 200 THEN ErrHTTP(o.status)
                        ELSE IF found.err # NilErr THEN found.err ELSE ""
           code == IF o.err # NilErr THEN metrics.lastHTTPCode ELSE o.status
           stored == [metrics EXCEPT !.lastError = lastError, !.lastHTTPCode = code,
                                     !.lookup = found]
       IN  /\ lastResponse' = IF o.err # NilErr THEN lastResponse
                              ELSE [lastResponse EXCEPT !.Metrics = o.status]
           /\ IF metrics.op = "GetOrCreateEntity" /\ ~(found.err = NilErr /\ found.entity # "")
              THEN /\ metrics' = [stored EXCEPT !.posts = @ + 1]
                   /\ Goto(g, "ce_post", [frame[g] EXCEPT !.url = "/entities"])
              ELSE /\ metrics' = [stored EXCEPT !.result = found]
                   /\ Return(g, metrics.op, found.err, Mode)
    /\ UNCHANGED <<client, mw, sg, fam, b, l, h, addsSinceBC, addsSinceBCE>>

\* CreateEntity from the return of m.http.Post on.
Metrics_CreateEntity(g, o, body) ==
    /\ pc[g] = "ce_post"
    /\ LET created == IF o.err # NilErr THEN [entity |-> "", err |-> o.err]
                      ELSE IF ~StatusOK(o.status) THEN [entity |-> "", err |-> ErrStatus(o.status)]
                      ELSE IF body = "malformed" THEN [entity |-> "", err |-> "unexpected end of JSON input"]
                      ELSE IF body = "noid" THEN [entity |-> "", err |-> "no entity ID in response"]
                      ELSE [entity |-> "e2", err |-> NilErr]
           lastError == IF o.err # NilErr THEN o.err
                        ELSE IF ~StatusOK(o.status) THEN ErrHTTP(o.status)
                        ELSE IF created.err # NilErr THEN created.err ELSE ""
           code == IF o.err # NilErr THEN metrics.lastHTTPCode ELSE o.status
       IN  /\ lastResponse' = IF o.err # NilErr THEN lastResponse
                              ELSE [lastResponse EXCEPT !.Metrics = o.status]
           /\ metrics' = [metrics EXCEPT !.lastError = lastError, !.lastHTTPCode = code,
                                         !.result = created]
           /\ Return(g, metrics.op, created.err, Mode)
    /\ UNCHANGED <<client, mw, sg, fam, b, l, h, addsSinceBC, addsSinceBCE>>

\* ------------------------------------------------------------------ Logger
LoggerMode == IF l.batchMode THEN "Batch" ELSE "Immediate"

LoggerBatchSize == Len(l.batchQueue)

\* l.logCtx of the i-th Logger of the family, and of the Logger being called
CtxOf(i) == fam.maps[fam.loggers[i].logCtx]
LogCtx == CtxOf(fam.cur)

\* mergeTags: nil when the context and the tags are both empty, else the
\* context overridden by the tags.

mergeTagsAlwaysMap(tags) ==
    [isNil |-> FALSE,
     kv |-> IF DOMAIN LogCtx = {} /\ DOMAIN tags.kv = {} THEN <<>>
            ELSE [k \in DOMAIN LogCtx \cup DOMAIN tags.kv |->
                    IF k \in DOMAIN tags.kv THEN tags.kv[k] ELSE LogCtx[k]]]
mergeTags(tags) ==
    IF DOMAIN LogCtx = {} /\ DOMAIN tags.kv = {}
    THEN NilMap
    ELSE [isNil |-> FALSE,
          kv |-> [k \in DOMAIN LogCtx \cup DOMAIN tags.kv |->
                    IF k \in DOMAIN tags.kv THEN tags.kv[k] ELSE LogCtx[k]]]

\* encoding/json with `json:"hostname,omitempty"` and `json:"tags,omitempty"`:
\* the fields of a LogEntry that appear on the wire
WireFields(entry) ==
    {"message", "severity"}
        \cup (IF entry.Hostname # "" THEN {"hostname"} ELSE {})
        \cup (IF ~entry.Tags.isNil /\ DOMAIN entry.Tags.kv # {} THEN {"tags"} ELSE {})

LogQueuedInverted == ~l.batchMode
LogQueued == l.batchMode
LoggerSendBatchNoop == ~l.batchMode \/ Len(l.batchQueue) = 0

LoggerBeginBatchFields == [l EXCEPT !.batchMode = TRUE, !.batchQueue = <<>>]
LoggerEndBatchFields == [l EXCEPT !.batchMode = FALSE, !.batchQueue = <<>>]
LoggerClearBatchLeavesBatch == [l EXCEPT !.batchMode = FALSE, !.batchQueue = <<>>]
LoggerClearBatchFields == [l EXCEPT !.batchQueue = <<>>]

\* func (l *Logger) Log(ctx, level, message, tags) error; Debug, Info, Warn
\* and Error call it with their level.
Logger_LogPrepends(g, level, message, tags) ==
    /\ Idle(g, "Logger")
    /\ CanLock(l)
    /\ LET entry == [Message |-> message, Level |-> level, Hostname |-> "", Tags |-> mergeTags(tags)]
       IN IF LogQueued
          THEN /\ Len(l.batchQueue) < MaxLogQueue
               /\ l' = [l EXCEPT !.batchQueue = <<entry>> \o @]
               /\ Return(g, "Log", NilErr, LoggerMode)
          ELSE /\ l' = [l EXCEPT !.mu = UnlockBeforePost(g)]
               /\ Goto(g, "log_post",
                       [NoFrame EXCEPT !.url = "/logs",
                          !.body = <<[entry EXCEPT !.Hostname = l.hostname]>>])
    /\ UNCHANGED <<client, metrics, lastResponse, fam, b, h, addsSinceBC, addsSinceBCE>>
Logger_Log(g, level, message, tags) ==
    /\ Idle(g, "Logger")
    /\ CanLock(l)
    /\ LET entry == [Message |-> message, Level |-> level, Hostname |-> "", Tags |-> mergeTags(tags)]
       IN IF LogQueued
          THEN /\ Len(l.batchQueue) < MaxLogQueue
               /\ l' = [l EXCEPT !.batchQueue = Append(@, entry)]
               /\ Return(g, "Log", NilErr, LoggerMode)
          ELSE /\ l' = [l EXCEPT !.mu = UnlockBeforePost(g)]
               /\ Goto(g, "log_post",
                       [NoFrame EXCEPT !.url = "/logs",
                          !.body = <<[entry EXCEPT !.Hostname = l.hostname]>>])
    /\ UNCHANGED <<client, metrics, lastResponse, fam, b, h, addsSinceBC, addsSinceBCE>>

\* func (l *Logger) sendLog(ctx, entry) error: the Post and the status test
Logger_sendLog(g, o) ==
    /\ pc[g] = "log_post"
    /\ IF o.err # NilErr
       THEN Return(g, "Log", o.err, LoggerMode)
       ELSE IF ~StatusOK(o.status)
            THEN Return(g, "Log", ErrStatus(o.status), LoggerMode)
            ELSE Return(g, "Log", NilErr, LoggerMode)
    /\ UNCHANGED <<client, metrics, lastResponse, mw, sg, fam, b, l, h, addsSinceBC, addsSinceBCE>>

\* func (l *Logger) BeginBatch()
Logger_BeginBatch(g) ==
    /\ Idle(g, "Logger")
    /\ CanLock(l)
    /\ l' = LoggerBeginBatchFields
    /\ Return(g, "LoggerBeginBatch", NilErr, LoggerMode)
    /\ UNCHANGED <<client, metrics, lastResponse, mw, sg, fam, b, h, addsSinceBC, addsSinceBCE>>

\* func (l *Logger) SendBatch(ctx) error: the no-op test and the copy of the
\* queue, under the mutex.
Logger_SendBatch(g) ==
    /\ Idle(g, "Logger")
    /\ CanLock(l)
    /\ IF LoggerSendBatchNoop
       THEN /\ Return(g, "LoggerSendBatch", NilErr, LoggerMode)
            /\ l' = l
       ELSE /\ Goto(g, "lsb_post",
                    [NoFrame EXCEPT !.url = "/logs/batch",
                       !.name = l.hostname, !.body = l.batchQueue])
            /\ l' = [l EXCEPT !.mu = UnlockBeforePost(g)]
    /\ UNCHANGED <<client, metrics, lastResponse, mw, sg, fam, b, h, addsSinceBC, addsSinceBCE>>

\* resp, _, err := l.http.Post(ctx, url, payload) and the status test
Logger_SendBatchPost(g, o) ==
    /\ pc[g] = "lsb_post"
    /\ IF o.err # NilErr
       THEN Return(g, "LoggerSendBatch", o.err, LoggerMode)
       ELSE IF ~StatusOK(o.status)
            THEN Return(g, "LoggerSendBatch", ErrStatus(o.status), LoggerMode)
            ELSE Goto(g, "lsb_clear", [frame[g] EXCEPT !.status = o.status])
    /\ UNCHANGED <<client, metrics, lastResponse, mw, sg, fam, b, l, h, addsSinceBC, addsSinceBCE>>

\* l.ClearBatch(); return nil
Logger_SendBatchClear(g) ==
    /\ pc[g] = "lsb_clear"
    /\ CanLock(l)
    /\ l' = LoggerClearBatchFields
    /\ Return(g, "LoggerSendBatch", NilErr, LoggerMode)
    /\ UNCHANGED <<client, metrics, lastResponse, mw, sg, fam, b, h, addsSinceBC, addsSinceBCE>>

\* func (l *Logger) EndBatch()
Logger_EndBatch(g) ==
    /\ Idle(g, "Logger")
    /\ CanLock(l)
    /\ l' = LoggerEndBatchFields
    /\ Return(g, "LoggerEndBatch", NilErr, LoggerMode)
    /\ UNCHANGED <<client, metrics, lastResponse, mw, sg, fam, b, h, addsSinceBC, addsSinceBCE>>

\* func (l *Logger) ClearBatch()
Logger_ClearBatch(g) ==
    /\ Idle(g, "Logger")
    /\ CanLock(l)
    /\ l' = LoggerClearBatchFields
    /\ Return(g, "LoggerClearBatch", NilErr, LoggerMode)
    /\ UNCHANGED <<client, metrics, lastResponse, mw, sg, fam, b, h, addsSinceBC, addsSinceBCE>>

\* ------------------------------------------------- WithContext, GetContext
\* map[string]interface{}{k: v}
Map1(k, v) == [isNil |-> FALSE, kv |-> [x \in {k} |-> v]]
MapA1B2 == [isNil |-> FALSE, kv |-> [k \in {"a", "b"} |-> IF k = "a" THEN "1" ELSE "2"]]

\* batchMode and batchQueue of the i-th Logger
LoggerAt(i) ==
    IF i = fam.cur
    THEN [batchMode |-> l.batchMode, batchQueue |-> l.batchQueue]
    ELSE [batchMode |-> fam.loggers[i].batchMode, batchQueue |-> fam.loggers[i].batchQueue]

\* WithContext: mergedCtx is a new map, filled from l.logCtx and then from ctx
mergedCtxReceiverWins(ctx, extra) ==
    IF DOMAIN ctx \cup DOMAIN extra = {} THEN <<>>
    ELSE [k \in DOMAIN ctx \cup DOMAIN extra |-> IF k \in DOMAIN ctx THEN ctx[k] ELSE extra[k]]
mergedCtx(ctx, extra) ==
    IF DOMAIN ctx \cup DOMAIN extra = {} THEN <<>>
    ELSE [k \in DOMAIN ctx \cup DOMAIN extra |-> IF k \in DOMAIN extra THEN extra[k] ELSE ctx[k]]

\* WithContext: the Logger it returns, with the map at ref as its context
WithContextInheritsBatch(i, ref) ==
    [batchMode |-> LoggerAt(i).batchMode, batchQueue |-> LoggerAt(i).batchQueue,
     logCtx |-> ref, parent |-> i]
WithContextFields(i, ref) ==
    [batchMode |-> FALSE, batchQueue |-> <<>>, logCtx |-> ref, parent |-> i]

\* GetContext: the map it returns is result, a new map
GetContextRef(i) == Len(fam.maps) + 1

\* func (l *Logger) WithContext(ctx map[string]interface{}) *Logger, called
\* on the i-th Logger
Logger_WithContext(g, i, extra, maxLoggers) ==
    /\ Idle(g, "Logger")
    /\ i \in 1..Len(fam.loggers)
    /\ Len(fam.loggers) < maxLoggers
    /\ Len(fam.maps) < MaxMaps
    /\ fam' = [fam EXCEPT !.maps = Append(@, mergedCtx(CtxOf(i), extra.kv)),
                          !.loggers = Append(@, WithContextFields(i, Len(fam.maps) + 1))]
    /\ UNCHANGED <<client, metrics, lastResponse, mw, sg, b, l, pc, frame, ret, addsSinceBC, addsSinceBCE, h>>

\* func (l *Logger) GetContext() map[string]interface{}, called on the i-th Logger
Logger_GetContext(g, i) ==
    /\ Idle(g, "Logger")
    /\ i \in 1..Len(fam.loggers)
    /\ Len(fam.maps) < MaxMaps
    /\ fam' = [fam EXCEPT !.maps = Append(@, CtxOf(i)),
                          !.held = @ \cup {GetContextRef(i)}]
    /\ UNCHANGED <<client, metrics, lastResponse, mw, sg, b, l, pc, frame, ret, addsSinceBC, addsSinceBCE, h>>

\* ctx["key"] = "modified": the caller writes to a map GetContext gave it
Caller_SetKey(g, ref, k, v) ==
    /\ Idle(g, "Logger")
    /\ ref \in fam.held
    /\ fam' = [fam EXCEPT !.maps[ref] =
                  [x \in DOMAIN @ \cup {k} |-> IF x = k THEN v ELSE @[x]]]
    /\ UNCHANGED <<client, metrics, lastResponse, mw, sg, b, l, pc, frame, ret, addsSinceBC, addsSinceBCE, h>>

\* The caller turns to the i-th Logger: its following calls have that
\* Logger as their receiver.
Caller_use(g, i) ==
    /\ Idle(g, "Logger")
    /\ i \in 1..Len(fam.loggers)
    /\ i # fam.cur
    /\ fam' = [fam EXCEPT !.cur = i,
                          !.loggers[fam.cur].batchMode = l.batchMode,
                          !.loggers[fam.cur].batchQueue = l.batchQueue]
    /\ l' = [l EXCEPT !.batchMode = fam.loggers[i].batchMode,
                      !.batchQueue = fam.loggers[i].batchQueue]
    /\ UNCHANGED <<client, metrics, lastResponse, mw, sg, b, pc, frame, ret, addsSinceBC, addsSinceBCE, h>>

\* ------------------------------------------------------------------ middleware
\* func Middleware(config MiddlewareConfig): the middlewareState it builds.
\* mw.req[g] is the request goroutine g serves: where ServeHTTP is (loc), the
\* status the client's ResponseWriter committed (w, 0: none yet), the fields
\* of the statusRecorder, whether sendMetric is to be called (metric), how
\* many log entries and metrics were handed to the clients (logs, sends),
\* how the resolution this request ran ended (resolved), and whether its
\* ensureEntity left the mutex after the write to boundMetrics (synced).
Middleware(config) ==
    [built |-> TRUE, config |-> config, mu |-> Unlocked, entityDone |-> FALSE,
     boundMetrics |-> "nil",
     req |-> [g \in Goroutines |->
                 [loc |-> "none", method |-> "", path |-> <<>>, skip |-> FALSE, w |-> 0,
                  status |-> 0, wroteHeader |-> FALSE, panicked |-> FALSE, metric |-> FALSE,
                  logs |-> 0, sends |-> 0, resolved |-> "none", synced |-> FALSE]]]

\* config.IgnorePaths
ignorePathsNone == {}
ignorePaths == {Bytes("a", 7, "/health")}

\* next.ServeHTTP: the calls the wrapped handler makes, in order, on the
\* statusRecorder (on the client's ResponseWriter itself when ~recorded).
\* s.w is what http.ResponseWriter commits: the first WriteHeader that is
\* not informational (1xx), or 200 at the first Write.
RECURSIVE Handler_ServeHTTP(_, _, _)
Handler_ServeHTTP(handler, s, recorded) ==
    IF handler = <<>> THEN s
    ELSE LET op == Head(handler)
             informational == op.code >= 100 /\ op.code < 200 /\ op.code # 101
         IN  CASE op.op = "panic" -> [s EXCEPT !.panicked = TRUE]
               [] op.op = "WriteHeader" ->
                    Handler_ServeHTTP(Tail(handler),
                        [s EXCEPT !.status = IF recorded /\ ~s.wroteHeader THEN op.code ELSE @,
                                  !.wroteHeader = @ \/ recorded,
                                  !.w = IF @ = 0 /\ ~informational THEN op.code ELSE @],
                        recorded)
               [] op.op = "Write" ->
                    Handler_ServeHTTP(Tail(handler),
                        [s EXCEPT !.wroteHeader = @ \/ recorded,
                                  !.w = IF @ = 0 THEN 200 ELSE @],
                        recorded)

severityFromStatusAbove500(status) ==
    IF status > 500 THEN "error" ELSE IF status >= 400 THEN "warn" ELSE "info"
severityFromStatus(status) ==
    IF status >= 500 THEN "error" ELSE IF status >= 400 THEN "warn" ELSE "info"

\* The handler Middleware(config)(next) returns, up to the calls of
\* logRequest and sendMetric: the deferred recover with its http.Error, the
\* test of ignorePaths, and next.ServeHTTP.
Middleware_ServeHTTP(g, method, path, handler) ==
    /\ mw.built
    /\ mw.req[g].loc \in {"none", "done"}
    /\ pc[g] = "idle"
    /\ LET skip == path \in ignorePaths
           s == Handler_ServeHTTP(handler,
                    [w |-> 0, status |-> 200, wroteHeader |-> FALSE, panicked |-> FALSE], ~skip)
           logged == mw.config.LogRequests /\ mw.config.Logger
           metered == mw.config.LogMetrics /\ mw.config.Metrics
       IN  mw' = [mw EXCEPT !.req[g] =
                    [loc |-> IF s.panicked \/ skip THEN "done"
                             ELSE IF logged THEN "log"
                             ELSE IF metered THEN "metric" ELSE "done",
                     method |-> method, path |-> path, skip |-> skip,
                     w |-> IF s.panicked /\ s.w = 0 THEN 500 ELSE s.w,
                     status |-> s.status, wroteHeader |-> s.wroteHeader,
                     panicked |-> s.panicked, metric |-> metered,
                     logs |-> 0, sends |-> 0, resolved |-> "none", synced |-> FALSE]]
    /\ UNCHANGED <<client, metrics, lastResponse, sg, fam, b, l, pc, frame, ret, h, addsSinceBC, addsSinceBCE>>

\* func (mw *middlewareState) logRequest(r, status, durationMs)
Middleware_logRequest(g) ==
    /\ mw.req[g].loc = "log"
    /\ LET r == mw.req[g]
           message == Bytes("a", 3, r.method) \o Bytes("a", 1, " ") \o r.path
                        \o Bytes("a", 1, " ") \o Bytes("a", 3, ToString(r.status))
                        \o Bytes("a", 7, " (12ms)")
           tags == [isNil |-> FALSE,
                    kv |-> [k \in {"http_method", "http_path", "http_status", "duration_ms", "source"} |->
                              CASE k = "http_method" -> r.method
                                [] k = "http_path" -> r.path
                                [] k = "http_status" -> r.status
                                [] k = "duration_ms" -> "12.34"
                                [] k = "source" -> "http_middleware"]]
       IN  Logger_Log(g, severityFromStatus(r.status), truncateMessage(message), tags)
    /\ mw' = [mw EXCEPT !.req[g].loc = "logged", !.req[g].logs = @ + 1]
    /\ sg' = sg

\* sendMetric, ensureEntity: Lock, and the test of entityDone
Middleware_sendMetric(g) ==
    /\ \/ mw.req[g].loc = "metric"
       \/ mw.req[g].loc = "logged" /\ mw.req[g].metric /\ pc[g] = "idle"
    /\ CanLock(mw)
    /\ mw' = IF mw.entityDone
             THEN [mw EXCEPT !.req[g].loc = "check", !.req[g].synced = TRUE]
             ELSE [mw EXCEPT !.mu = g, !.req[g].loc = "resolving"]
    /\ UNCHANGED <<client, metrics, lastResponse, sg, fam, b, l, pc, frame, ret, h, addsSinceBC, addsSinceBCE>>

\* ensureEntity: GetOrCreateEntity returned (ok: an entity and no error);
\* the deferred Unlock
Middleware_ensureEntity(g, ok) ==
    /\ mw.req[g].loc = "resolving"
    /\ mw' = IF ok
             THEN [mw EXCEPT !.boundMetrics = "bound", !.entityDone = TRUE, !.mu = Unlocked,
                             !.req[g].loc = "check", !.req[g].resolved = "ok",
                             !.req[g].synced = TRUE]
             ELSE [mw EXCEPT !.mu = Unlocked, !.req[g].loc = "check",
                             !.req[g].resolved = "failed"]
    /\ UNCHANGED <<client, metrics, lastResponse, sg, fam, b, l, pc, frame, ret, h, addsSinceBC, addsSinceBCE>>

\* sendMetric: if mw.boundMetrics == nil { return }; mw.boundMetrics.Send(...)
\* The read of mw.boundMetrics is made without the mutex: a goroutine whose
\* ensureEntity ended before the write reads nil or what was written.
Middleware_Send(g, bm) ==
    /\ mw.req[g].loc = "check"
    /\ bm \in (IF mw.req[g].synced THEN {mw.boundMetrics} ELSE {"nil", mw.boundMetrics})
    /\ IF bm = "nil"
       THEN /\ mw' = [mw EXCEPT !.req[g].loc = "done"]
            /\ UNCHANGED <<client, metrics, lastResponse, fam, b, l, pc, frame, ret, h, addsSinceBC, addsSinceBCE>>
       ELSE /\ BoundMetrics_Send(g, "http.request.duration", 12, "ms",
                    [isNil |-> FALSE,
                     kv |-> [k \in {"method", "path", "status"} |->
                               CASE k = "method" -> mw.req[g].method
                                 [] k = "path" -> mw.req[g].path[1].id
                                 [] k = "status" -> ToString(mw.req[g].status)]])
            /\ mw' = [mw EXCEPT !.req[g].loc = "sent", !.req[g].sends = @ + 1]
    /\ sg' = sg

\* logRequest and sendMetric returned (or were not called): ServeHTTP returns
Middleware_return(g) ==
    /\ pc[g] = "idle"
    /\ \/ mw.req[g].loc = "sent"
       \/ mw.req[g].loc = "logged" /\ ~mw.req[g].metric
    /\ mw' = [mw EXCEPT !.req[g].loc = "done"]
    /\ UNCHANGED <<client, metrics, lastResponse, sg, fam, b, l, pc, frame, ret, h, addsSinceBC, addsSinceBCE>>

\* ---------------------------------------------------------------- slog bridge
\* goroutineID(): the number runtime.Stack prints for the goroutine running
goroutineIDOfProcess(g) == "0"
goroutineID(g) == g

\* mapSlogLevel, over slog.LevelDebug = -4, LevelInfo = 0, LevelWarn = 4, LevelError = 8
mapSlogLevelNamedOnly(level) ==
    IF level = 8 THEN "error"
    ELSE IF level = 4 THEN "warn"
    ELSE IF level = 0 THEN "info"
    ELSE "debug"
mapSlogLevel(level) ==
    IF level >= 8 THEN "error"
    ELSE IF level >= 4 THEN "warn"
    ELSE IF level >= 0 THEN "info"
    ELSE "debug"

\* defer func() { recover() }(): what Handle hands to its caller when a panic
\* unwinds it. The recovered call returns the zero value of its result, a
\* nil error; without the recover the panic goes on into the caller.
PanicEscapes == "panic"
PanicRecovered == NilErr

\* What the return of a refused call does to slogSending: its defer of
\* Delete is not yet registered.
RefusedDeletes(g) == sg.sending \ {goroutineID(g)}
RefusedLeaves(g) == sg.sending

\* func (h *SlogHandler) Handle(ctx, record) error, up to the defers: the
\* LoadOrStore of the goroutine's id. The call is made by a goroutine that is
\* in no Logger call, or from inside the Handle call the goroutine is in
\* (by a LogValuer of the record, or by the transport while it posts).
SlogHandler_Handle(g, logger, record) ==
    /\ client = "Logger"
    /\ \/ sg.st[g].loc = "out" /\ pc[g] = "idle"
       \/ sg.st[g].loc = "prep"
       \/ sg.st[g].loc = "fwd" /\ pc[g] = "log_post"
    /\ IF goroutineID(g) \in sg.sending
       THEN /\ sg.st[g].dropped < MaxNested
            /\ sg' = [sg EXCEPT !.sending = RefusedLeaves(g),
                                !.st[g].dropped = @ + 1, !.st[g].result = NilErr]
       ELSE sg' = [sg EXCEPT !.sending = @ \cup {goroutineID(g)},
                             !.st[g] = [loc |-> "prep", logger |-> logger, record |-> record,
                                        dropped |-> 0, result |-> "none"]]
    /\ UNCHANGED <<client, metrics, lastResponse, mw, fam, b, l, pc, frame, ret, h, addsSinceBC, addsSinceBCE>>

\* message := truncateMessage(record.Message) ... h.logger.Debug/Info/Warn/Error.
\* On a nil h.logger the call panics in Logger.Log (l.mergeTags reads
\* l.logCtx): the deferred recover() stops it, the deferred Delete runs.
SlogHandler_forward(g) ==
    /\ sg.st[g].loc = "prep"
    /\ IF sg.st[g].logger
       THEN /\ Logger_Log(g, mapSlogLevel(sg.st[g].record.Level),
                          truncateMessage(sg.st[g].record.Message), Map1("source", "slog"))
            /\ sg' = [sg EXCEPT !.st[g].loc = "fwd"]
       ELSE /\ sg' = [sg EXCEPT !.sending = @ \ {goroutineID(g)},
                                !.st[g].loc = "out", !.st[g].result = PanicRecovered]
            /\ UNCHANGED <<client, metrics, lastResponse, fam, b, l, pc, frame, ret, h, addsSinceBC, addsSinceBCE>>
    /\ mw' = mw

\* A panic while the record is prepared (the LogValuer of an attribute
\* that addAttr resolves): the deferred recover() stops it, the deferred
\* Delete runs.
SlogHandler_panic(g) ==
    /\ sg.st[g].loc = "prep"
    /\ sg' = [sg EXCEPT !.sending = @ \ {goroutineID(g)},
                        !.st[g].loc = "out", !.st[g].result = PanicRecovered]
    /\ UNCHANGED <<client, metrics, lastResponse, mw, fam, b, l, pc, frame, ret, h, addsSinceBC, addsSinceBCE>>

\* The Logger call returned, its error is dropped; return nil, and the
\* deferred Delete runs.
SlogHandler_return(g) ==
    /\ sg.st[g].loc = "fwd"
    /\ pc[g] = "idle"
    /\ sg' = [sg EXCEPT !.sending = @ \ {goroutineID(g)},
                        !.st[g].loc = "out", !.st[g].result = NilErr]
    /\ UNCHANGED <<client, metrics, lastResponse, mw, fam, b, l, pc, frame, ret, h, addsSinceBC, addsSinceBCE>>

\* ----------------------------------------------------------- specification
\* NewMetrics, Metrics.ForEntity, NewLogger: the clients of the run and the middleware m
\* built over them ([built |-> FALSE]: none); slogSending is empty.
\* sg.st[g]: loc is "out" (g is in no Handle call), "prep" (its Handle call
\* stored its id and builds the message and the tags) or "fwd" (it called
\* the Logger); logger tells whether h.logger of the handler the call is
\* made on is set (FALSE: nil); record is the call's argument; dropped
\* counts the calls on g that the guard refused since then; result is what
\* the last call on g returned.
InitWith(clients, m) ==
    /\ client \in clients
    /\ b = [batchMode |-> FALSE, multiBatchMode |-> FALSE, batchMetricName |-> "",
            batchUnit |-> "", batchQueue |-> <<>>, lastError |-> "", lastHTTPCode |-> NoCode,
            mu |-> Unlocked]
    /\ l = [batchMode |-> FALSE, batchQueue |-> <<>>, hostname |-> "host", mu |-> Unlocked]
    /\ fam = [loggers |-> <<[batchMode |-> FALSE, batchQueue |-> <<>>, logCtx |-> 1, parent |-> 0]>>,
              maps |-> << <<>> >>, held |-> {}, cur |-> 1]
    /\ pc = [g \in Goroutines |-> "idle"]
    /\ frame = [g \in Goroutines |-> NoFrame]
    /\ ret = NoRet
    /\ addsSinceBC = 0
    /\ addsSinceBCE = 0
    /\ h = NoCall
    /\ mw = m
    /\ metrics = [lastError |-> "", lastHTTPCode |-> NoCode, op |-> "none", gets |-> 0, posts |-> 0,
                  lookup |-> [entity |-> "", err |-> NilErr], result |-> [entity |-> "", err |-> NilErr]]
    /\ lastResponse = [Metrics |-> NoCode, BoundMetrics |-> NoCode]
    /\ sg = [sending |-> {},
             st |-> [g \in Goroutines |->
                       [loc |-> "out", logger |-> TRUE, record |-> <<>>, dropped |-> 0,
                        result |-> "none"]]]

Init == InitWith({"BoundMetrics", "Logger"}, [built |-> FALSE])

\* The operations of BoundMetrics called by goroutine g. in: the sets the
\* arguments are drawn from (queued: of Add and AddMetric, sent: of Send) and
\* the answers of the transport.
BoundMetricsCall(g, in) ==
    \/ \E n \in in.names, u \in MetricUnits : BoundMetrics_BeginBatch(g, n, u)
    \/ \E v \in in.queued.values, t \in in.queued.tags : BoundMetrics_Add(g, v, t)
    \/ BoundMetrics_BeginMultiBatch(g)
    \/ \E n \in in.names, v \in in.queued.values, u \in MetricUnits, t \in in.queued.tags :
          BoundMetrics_AddMetric(g, n, v, u, t)
    \/ BoundMetrics_EndBatch(g)
    \/ BoundMetrics_ClearBatch(g)
    \/ \E n \in in.names, v \in in.sent.values, u \in MetricUnits, t \in in.sent.tags :
          BoundMetrics_Send(g, n, v, u, t) /\ UNCHANGED <<mw, sg>>
    \/ BoundMetrics_SendReject(g)
    \/ \E o \in in.outs : BoundMetrics_SendPost(g, o)
    \/ BoundMetrics_SendErr(g)
    \/ BoundMetrics_SendCode(g)
    \/ BoundMetrics_SendStatus(g)
    \/ BoundMetrics_SendBatch(g)
    \/ \E o \in in.outs : BoundMetrics_SendBatchPost(g, o)
    \/ BoundMetrics_SendBatchErr(g)
    \/ BoundMetrics_SendBatchCode(g)
    \/ BoundMetrics_SendBatchStatus(g)
    \/ BoundMetrics_SendBatchDone(g)

\* The operations of Logger called by goroutine g.
LoggerCall(g, levels, tagmaps, outs) ==
    \/ \E lv \in levels, m \in LogMessages, t \in tagmaps : Logger_Log(g, lv, m, t) /\ UNCHANGED <<mw, sg>>
    \/ \E o \in outs : Logger_sendLog(g, o)
    \/ Logger_BeginBatch(g)
    \/ Logger_SendBatch(g)
    \/ \E o \in outs : Logger_SendBatchPost(g, o)
    \/ Logger_SendBatchClear(g)
    \/ Logger_EndBatch(g)
    \/ Logger_ClearBatch(g)

\* One caller and its client.
CallerInputs ==
    [names |-> MetricNames,
     queued |-> [values |-> MetricValues, tags |-> {NilMap, EmptyMap}],
     sent |-> [values |-> {1}, tags |-> TagMaps],
     outs |-> PostOutcomes]
Next ==
    \/ BoundMetricsCall(Caller, CallerInputs)
    \/ LoggerCall(Caller, {"info", "error"}, {NilMap, OneTag}, PostOutcomes)
Spec == Init /\ [][Next]_vars

\* One caller using single-metric batches only: BeginBatch, Add, ClearBatch, EndBatch.
NextSingleBatch ==
    \/ \E n \in MetricNames, u \in MetricUnits : BoundMetrics_BeginBatch(Caller, n, u)
    \/ \E v \in MetricValues, t \in TagMaps : BoundMetrics_Add(Caller, v, t)
    \/ BoundMetrics_ClearBatch(Caller)
    \/ BoundMetrics_EndBatch(Caller)
SpecSingleBatch == Init /\ [][NextSingleBatch]_vars

\* Goroutines sharing one BoundMetrics client.
SharedInputs ==
    [names |-> {"cpu"},
     queued |-> [values |-> MetricValues, tags |-> {NilMap}],
     sent |-> [values |-> {1}, tags |-> {NilMap}],
     outs |-> {o \in PostOutcomes : o.status \in {NoCode, 200}}]
NextConcurrent == \E g \in Threads : BoundMetricsCall(g, SharedInputs)
SpecConcurrent == Init /\ [][NextConcurrent]_vars

\* Goroutines sharing one client, a BoundMetrics or a Logger.
NextShared ==
    \/ \E g \in Threads : BoundMetricsCall(g, SharedInputs)
    \/ \E g \in Threads : LoggerCall(g, {"info"}, {NilMap}, SharedInputs.outs)
SpecShared == Init /\ [][NextShared]_vars

\* One caller deriving Loggers from a root Logger and reading their contexts.
NextContext ==
    \/ \E i \in 1..MaxLoggers, extra \in {NilMap, Map1("a", "1"), Map1("b", "2"), Map1("a", "3")} :
          Logger_WithContext(Caller, i, extra, MaxLoggers)
    \/ \E i \in 1..MaxLoggers : Logger_GetContext(Caller, i)
    \/ \E ref \in 1..MaxMaps, k \in {"a", "b"} : Caller_SetKey(Caller, ref, k, "modified")
SpecContext == Init /\ [][NextContext]_vars

\* One caller using a Logger and one Logger derived from it.
NextFamily ==
    \/ \E extra \in {NilMap, MapA1B2} : Logger_WithContext(Caller, 1, extra, 2)
    \/ \E i \in 1..2 : Caller_use(Caller, i)
    \/ LoggerCall(Caller, {"info"}, {NilMap, EmptyMap, Map1("a", "9")},
                  {o \in PostOutcomes : o.status \in {NoCode, 200}})
SpecFamily == Init /\ [][NextFamily]_vars

\* One Post or Get call after another on one HTTPClient.
SpecTransport == Init /\ [][NextTransport]_vars

\* The steps of a call in progress. The goroutine running it is scheduled,
\* the timer of a backoff fires, and client.Do and the body read end: the
\* http.Client is built with a Timeout.
CallStep ==
    \/ HTTPClient_loop
    \/ HTTPClient_doRequest_marshal
    \/ HTTPClient_doRequest_do
    \/ \E s \in Statuses : HTTPClient_doRequest_response(s)
    \/ HTTPClient_doRequest_failed
    \/ \E ok \in BOOLEAN : HTTPClient_doRequest_read(ok)
    \/ HTTPClient_afterRequest
    \/ \E r \in JitterDraws : HTTPClient_calculateBackoff(r)
    \/ HTTPClient_select
    \/ HTTPClient_backoff_elapsed
    \/ HTTPClient_backoff_canceled
SpecTransportFair == Init /\ [][NextTransport]_vars /\ WF_vars(CallStep)

\* Calls configured (WithLoggerRetry, WithMetricsRetry) with enough attempts
\* for calculateBackoff to be applied to every index up to MaxBackoffAttempt.
NextBackoff ==
    \/ \E retry \in RetryConfigs : HTTPClient_doWithRetry(retry, MaxBackoffAttempt + 2, TRUE)
    \/ CallStep
    \/ Cancel
SpecBackoff == Init /\ [][NextBackoff]_vars

\* The calls of SlogHandler.Handle on goroutine g and the post of the Logger
\* call it makes.
SlogCall(g, loggers, records, outs) ==
    \/ \E lg \in loggers, r \in records : SlogHandler_Handle(g, lg, r)
    \/ SlogHandler_forward(g)
    \/ SlogHandler_panic(g)
    \/ SlogHandler_return(g)
    \/ \E o \in outs : Logger_sendLog(g, o)

\* One goroutine logging through the slog bridge and through the Logger
\* itself. The records' messages are about maxMessageBytes long: a run of
\* one-byte characters, then one character (whole, cut short, or no
\* character at all), then more one-byte characters.
SpecTruncate ==
    InitWith({"Logger"}, [built |-> FALSE]) /\
    [][LET pads == {0, 7} \cup {maxMessageBytes - k : k \in 0..6} \cup {maxMessageBytes + 1, 20000}
           chars == {<<>>,
                     Bytes("L2", 1, "") \o Bytes("c", 1, ""),
                     Bytes("L3", 1, "") \o Bytes("c", 2, ""),
                     Bytes("L4", 1, "") \o Bytes("c", 3, ""),
                     Bytes("L3", 1, "") \o Bytes("c", 1, ""),
                     Bytes("c", 1, ""),
                     Bytes("x", 1, "")}
           tails == {0, 1, 4, 5000}
           messages == {Bytes("a", p, "") \o ch \o Bytes("a", t, "") :
                          p \in pads, ch \in chars, t \in tails}
       IN  \/ SlogCall(Caller, {TRUE}, {[Message |-> m, Level |-> 0] : m \in messages},
                       {[err |-> NilErr, status |-> 200]})
           \/ /\ sg.st[Caller].loc = "out"
              /\ \E m \in {Bytes("a", 7, ""), Bytes("a", 20000, "")} :
                    Logger_Log(Caller, "info", m, NilMap)
              /\ UNCHANGED <<mw, sg>>]_vars

\* Goroutines logging through slog handlers, with and without a Logger.
SpecSlog ==
    InitWith({"Logger"}, [built |-> FALSE]) /\
    [][\E g \in Threads :
          SlogCall(g, BOOLEAN,
                   {[Message |-> Bytes("a", 7, ""), Level |-> lv] : lv \in {-1, 0, 3, 4, 7, 8}},
                   {o \in PostOutcomes : o.status \in {NoCode, 200}})]_vars

\* Middleware(config) with every combination of the toggles and of the
\* collaborators being set
InitMiddleware ==
    \E config \in [LogRequests : BOOLEAN, LogMetrics : BOOLEAN, Logger : BOOLEAN, Metrics : BOOLEAN] :
        InitWith({"Middleware"}, Middleware(config))

\* The requests goroutine g serves through the middleware, and the posts of
\* the Logger and BoundMetrics calls the middleware makes.
MiddlewareCall(g, paths, handlers, outs) ==
    \/ \E path \in paths, handler \in handlers : Middleware_ServeHTTP(g, "GET", path, handler)
    \/ Middleware_logRequest(g)
    \/ Middleware_sendMetric(g)
    \/ \E ok \in BOOLEAN : Middleware_ensureEntity(g, ok)
    \/ \E bm \in {"nil", "bound"} : Middleware_Send(g, bm)
    \/ Middleware_return(g)
    \/ \E o \in outs : Logger_sendLog(g, o)
    \/ \E o \in outs : BoundMetrics_SendPost(g, o)
    \/ BoundMetrics_SendErr(g)
    \/ BoundMetrics_SendCode(g)
    \/ BoundMetrics_SendStatus(g)

\* One request after another: handlers that write a header, a body, both,
\* nothing, and that panic before or after writing.
SpecMiddleware ==
    InitMiddleware /\
    [][MiddlewareCall(Caller,
          {Bytes("a", 7, "/health"), Bytes("a", 6, "/users"), Bytes("a", maxMessageBytes, "/long")},
          {<<>>, <<[op |-> "Write", code |-> 0]>>, <<[op |-> "panic", code |-> 0]>>,
           <<[op |-> "Write", code |-> 0], [op |-> "panic", code |-> 0]>>}
            \cup {<<[op |-> "WriteHeader", code |-> c]>> : c \in {200, 302, 399, 400, 404, 499, 500, 503}}
            \cup {<<[op |-> "WriteHeader", code |-> c], [op |-> "panic", code |-> 0]>> : c \in {200, 404}}
            \cup {<<[op |-> "WriteHeader", code |-> 404], [op |-> "WriteHeader", code |-> 200]>>,
                   <<[op |-> "WriteHeader", code |-> 103], [op |-> "WriteHeader", code |-> 200]>>},
          {o \in PostOutcomes : o.status \in {NoCode, 200}})]_vars

\* Requests served concurrently by one middleware.
SpecMiddlewareShared ==
    InitMiddleware /\
    [][\E g \in Threads :
          MiddlewareCall(g, {Bytes("a", 7, "/health"), Bytes("a", 6, "/users")},
                         {<<>>, <<[op |-> "panic", code |-> 0]>>},
                         {o \in PostOutcomes : o.status \in {NoCode, 200}})]_vars

\* One goroutine calling a Metrics instance: lookups and creations answered
\* with every status, with bodies of every kind, and transport errors.
SpecEntity ==
    InitWith({"BoundMetrics"}, [built |-> FALSE]) /\
    [][\/ \E op \in {"GetEntityByName", "CreateEntity", "GetOrCreateEntity"} : Metrics_request(Caller, op)
       \/ \E o \in PostOutcomes, body \in {"id", "noid", "malformed"} : Metrics_GetEntityByName(Caller, o, body)
       \/ \E o \in PostOutcomes, body \in {"id", "noid", "malformed"} : Metrics_CreateEntity(Caller, o, body)
      ]_vars

\* One goroutine calling a Metrics instance, while g1 uses every operation
\* of the BoundMetrics client made from it and g2 calls Send on the same
\* client. The lookups and g1's requests are answered 200 (or g1's fail),
\* the creations and g2's requests are answered 500.
SpecCodes ==
    InitWith({"BoundMetrics"}, [built |-> FALSE]) /\
    [][LET ok == {o \in PostOutcomes : o.status \in {NoCode, 200}}
           refused == {o \in PostOutcomes : o.status = 500}
       IN  \/ \E op \in {"GetEntityByName", "CreateEntity"} : Metrics_request(Caller, op)
           \/ Metrics_GetEntityByName(Caller, [err |-> NilErr, status |-> 200], "id")
           \/ \E o \in refused : Metrics_CreateEntity(Caller, o, "id")
           \/ BoundMetricsCall("g1", [names |-> {"cpu"},
                                      queued |-> [values |-> {1}, tags |-> {NilMap}],
                                      sent |-> [values |-> {1}, tags |-> {NilMap}],
                                      outs |-> ok])
           \/ BoundMetrics_Send("g2", "cpu", 1, "ms", NilMap) /\ UNCHANGED <<mw, sg>>
           \/ BoundMetrics_SendReject("g2")
           \/ \E o \in refused : BoundMetrics_SendPost("g2", o)
           \/ BoundMetrics_SendCode("g2")
           \/ BoundMetrics_SendStatus("g2")
      ]_vars

\* Goroutines sharing one BoundMetrics whose batch is begun once and never
\* reset by a caller, and whose entries are told apart by their values: 1 is
\* added to the empty queue and 2 after it, before any response was stored,
\* so that each value is accepted once at most.
SpecDistinct ==
    InitWith({"BoundMetrics"}, [built |-> FALSE]) /\
    [][\E g \in Threads :
          \/ ~b.batchMode /\ BoundMetrics_BeginBatch(g, "cpu", "ms")
          \/ \E v \in {1, 2} :
                /\ b.lastHTTPCode = NoCode /\ Len(b.batchQueue) = v - 1
                /\ BoundMetrics_Add(g, v, NilMap)
          \/ BoundMetrics_SendBatch(g)
          \/ \E o \in {o \in PostOutcomes : o.status \in {NoCode, 200, 500}} : BoundMetrics_SendBatchPost(g, o)
          \/ BoundMetrics_SendBatchErr(g)
          \/ BoundMetrics_SendBatchCode(g)
          \/ BoundMetrics_SendBatchStatus(g)
          \/ BoundMetrics_SendBatchDone(g)
      ]_vars

\* One goroutine filling and sending the batches of a BoundMetrics, with two
\* metric names and two units, while another switches the batch mode.
SpecPayload ==
    InitWith({"BoundMetrics"}, [built |-> FALSE]) /\
    [][\/ \E n \in MetricNames, u \in {"ms", "pct"} : BoundMetrics_BeginBatch("g1", n, u)
       \/ BoundMetrics_Add("g1", 1, NilMap)
       \/ BoundMetrics_BeginMultiBatch("g1")
       \/ \E n \in MetricNames, u \in {"ms", "pct"} : BoundMetrics_AddMetric("g1", n, 2, u, NilMap)
       \/ BoundMetrics_EndBatch("g1")
       \/ BoundMetrics_SendBatch("g1")
       \/ \E o \in {o \in PostOutcomes : o.status \in {200, 500}} : BoundMetrics_SendBatchPost("g1", o)
       \/ BoundMetrics_SendBatchCode("g1")
       \/ BoundMetrics_SendBatchStatus("g1")
       \/ BoundMetrics_SendBatchDone("g1")
       \/ BoundMetrics_BeginBatch("g2", "mem", "pct")
       \/ BoundMetrics_BeginMultiBatch("g2")
      ]_vars

\* ------------------------------------------------------------------ claims
Accepting == {op \in {"Send", "Add", "AddMetric"} :
                \/ op = "Send" /\ ~SendRejected
                \/ op = "Add" /\ ~AddRejected
                \/ op = "AddMetric" /\ ~AddMetricRejected}

\* C1: in every reachable state exactly one of Send, Add and AddMetric passes
\* its mode check: Add exactly in SingleBatch, AddMetric exactly in MultiBatch,
\* Send exactly in Idle; and every call the caller made was accepted or
\* rejected accordingly.
C1_ExactlyOneAccepted ==
    /\ Mode \in {"Idle", "SingleBatch", "MultiBatch"}
    /\ Accepting = (CASE Mode = "Idle" -> {"Send"}
                      [] Mode = "SingleBatch" -> {"Add"}
                      [] Mode = "MultiBatch" -> {"AddMetric"}
                      [] OTHER -> {})
    /\ ret.op = "Add" => (ret.err = NilErr <=> ret.from = "SingleBatch")
    /\ ret.op = "Add" /\ ret.err # NilErr => ret.err = ErrNotSingle
    /\ ret.op = "AddMetric" => (ret.err = NilErr <=> ret.from = "MultiBatch")
    /\ ret.op = "AddMetric" /\ ret.err # NilErr => ret.err = ErrNotMulti
    /\ ret.op = "Send" => (ret.err = ErrSendInBatch <=> ret.from # "Idle")
    /\ pc[Caller] = "send_reject" => Mode # "Idle"
    /\ pc[Caller] = "send_post" => Mode = "Idle"

\* Add was rejected in MultiBatch, where AddMetric had queued an entry.
C1_Witness ==
    /\ ret.op = "Add" /\ ret.err = ErrNotSingle /\ ret.from = "MultiBatch"
    /\ Mode = "MultiBatch" /\ BatchSize > 0

\* C2 as stated: BatchSize() is the number of successful Add calls since the
\* most recent BeginBatch or ClearBatch, and is 0 right after BeginBatch,
\* EndBatch and ClearBatch.
C2_Original ==
    /\ BatchSize = addsSinceBC
    /\ ret.op \in {"BeginBatch", "EndBatch", "ClearBatch"} => BatchSize = 0

\* C2 as amended: BatchSize() is the number of successful Add calls since the
\* most recent BeginBatch, ClearBatch or EndBatch, and is 0 right after each.
C2_BatchSizeCountsAdds ==
    /\ BatchSize = addsSinceBCE
    /\ ret.op \in {"BeginBatch", "EndBatch", "ClearBatch"} => BatchSize = 0

\* Two Add calls succeeded since the batch began.
C2_Witness == ret.op = "Add" /\ ret.err = NilErr /\ BatchSize = 2 /\ addsSinceBCE = 2

\* C3: under any interleaving of the goroutines' calls the queue is non-empty
\* only in SingleBatch or MultiBatch: an Idle client has an empty queue.
C3_IdleQueueEmpty ==
    /\ Mode = "Idle" => b.batchQueue = <<>>
    /\ Len(b.batchQueue) > 0 => Mode \in {"SingleBatch", "MultiBatch"}

\* A goroutine's batch POST is in flight and another goroutine has ended the batch.
C3_Witness ==
    \E g \in Threads :
        /\ pc[g] = "sb_post" /\ Len(frame[g].body) = 2
        /\ Mode = "Idle" /\ b.batchQueue = <<>>

\* C4: from every mode BeginBatch(name, unit) leads to SingleBatch with name
\* and unit stored, BeginMultiBatch to MultiBatch, EndBatch to Idle, ClearBatch
\* to the mode it was called in; each leaves the queue empty, and each can be
\* called in every mode.
C4_Transitions ==
    [][/\ \A n \in MetricNames, u \in MetricUnits :
            BoundMetrics_BeginBatch(Caller, n, u) =>
                /\ Mode' = "SingleBatch" /\ b'.batchQueue = <<>>
                /\ b'.batchMetricName = n /\ b'.batchUnit = u
       /\ BoundMetrics_BeginMultiBatch(Caller) => Mode' = "MultiBatch" /\ b'.batchQueue = <<>>
       /\ BoundMetrics_EndBatch(Caller) => Mode' = "Idle" /\ b'.batchQueue = <<>>
       /\ BoundMetrics_ClearBatch(Caller) =>
            /\ Mode' = Mode /\ b'.batchQueue = <<>>
            /\ b'.batchMetricName = b.batchMetricName /\ b'.batchUnit = b.batchUnit
       /\ Idle(Caller, "BoundMetrics") =>
            /\ \A n \in MetricNames, u \in MetricUnits : ENABLED BoundMetrics_BeginBatch(Caller, n, u)
            /\ ENABLED BoundMetrics_BeginMultiBatch(Caller)
            /\ ENABLED BoundMetrics_EndBatch(Caller)
            /\ ENABLED BoundMetrics_ClearBatch(Caller)
      ]_vars

\* BeginBatch was called in MultiBatch.
C4_Witness ==
    /\ ret.op = "BeginBatch" /\ ret.from = "MultiBatch"
    /\ Mode = "SingleBatch" /\ b.batchMetricName = "mem" /\ b.batchQueue = <<>>


\* C5: Add outside SingleBatch, AddMetric outside MultiBatch and Send outside
\* Idle return their error in the call itself, store its message in lastError,
\* start no request, and change nothing else: mode, name, unit, queue.
C5_ModeErrorChangesNothing ==
    [][/\ \A v \in MetricValues, t \in TagMaps :
            BoundMetrics_Add(Caller, v, t) /\ Mode # "SingleBatch" =>
                /\ pc'[Caller] = "idle" /\ ret'.op = "Add" /\ ret'.err = ErrNotSingle
                /\ b' = [b EXCEPT !.lastError = ErrNotSingle]
       /\ \A n \in MetricNames, v \in MetricValues, u \in MetricUnits, t \in TagMaps :
            BoundMetrics_AddMetric(Caller, n, v, u, t) /\ Mode # "MultiBatch" =>
                /\ pc'[Caller] = "idle" /\ ret'.op = "AddMetric" /\ ret'.err = ErrNotMulti
                /\ b' = [b EXCEPT !.lastError = ErrNotMulti]
       /\ \A n \in MetricNames, v \in MetricValues, u \in MetricUnits, t \in TagMaps :
            BoundMetrics_Send(Caller, n, v, u, t) /\ Mode # "Idle" =>
                /\ pc'[Caller] = "send_reject" /\ b' = b
       /\ pc[Caller] = "send_reject" /\ pc'[Caller] # "send_reject" =>
                /\ pc'[Caller] = "idle" /\ ret'.op = "Send" /\ ret'.err = ErrSendInBatch
                /\ b' = [b EXCEPT !.lastError = ErrSendInBatch]
      ]_vars

\* Send was refused while two entries were queued, and they still are.
C5_Witness ==
    /\ ret.op = "Send" /\ ret.err = ErrSendInBatch /\ b.lastError = ErrSendInBatch
    /\ ret.from = "SingleBatch" /\ Mode = "SingleBatch" /\ BatchSize = 2

SendBatchLocs == {"sb_post", "sb_err", "sb_code", "sb_status", "sb_done"}
LoggerSendBatchLocs == {"lsb_post", "lsb_clear"}

\* C6: a SendBatch that posts (batch mode, non-empty queue) empties the queue
\* exactly when the POST was answered 200 or 201; after a transport error or
\* any other status the queue is what the call transmitted, entry by entry,
\* and the call never changes the batch mode. Logger and BoundMetrics.
C6_QueueClearedOnlyOnSuccess ==
    [][/\ pc[Caller] \in SendBatchLocs \/ pc'[Caller] \in SendBatchLocs =>
            /\ b'.batchMode = b.batchMode /\ b'.multiBatchMode = b.multiBatchMode
            /\ b'.batchQueue = IF pc[Caller] = "sb_status" /\ frame[Caller].status \in {200, 201}
                               THEN <<>> ELSE b.batchQueue
            /\ pc'[Caller] = "sb_post" =>
                 /\ Mode # "Idle" /\ BatchSize > 0
                 /\ frame'[Caller].body = BatchMetricsPayload.Metrics
            /\ pc'[Caller] = "idle" =>
                 IF ret'.err = NilErr
                 THEN b'.batchQueue = <<>> /\ b.lastHTTPCode \in {200, 201}
                 ELSE /\ BatchMetricsPayload'.Metrics = frame[Caller].body
                      /\ ~ENABLED BoundMetrics_SendBatchDone(Caller)
       /\ pc[Caller] \in LoggerSendBatchLocs \/ pc'[Caller] \in LoggerSendBatchLocs =>
            /\ l'.batchMode = l.batchMode
            /\ l'.batchQueue = IF pc[Caller] = "lsb_clear" THEN <<>> ELSE l.batchQueue
            /\ pc'[Caller] = "lsb_post" =>
                 l.batchMode /\ LoggerBatchSize > 0 /\ frame'[Caller].body = l.batchQueue
            /\ pc'[Caller] = "lsb_clear" => frame'[Caller].status \in {200, 201}
            /\ pc'[Caller] = "idle" =>
                 IF ret'.err = NilErr
                 THEN l'.batchQueue = <<>> /\ frame[Caller].status \in {200, 201}
                 ELSE l'.batchQueue = frame[Caller].body
      ]_vars

\* A batch of two entries was refused with status 500 and is still queued.
C6_Witness ==
    /\ ret.op = "SendBatch" /\ ret.err = ErrStatus(500)
    /\ BatchSize = 2 /\ b.lastHTTPCode = 500 /\ Mode = "MultiBatch"

\* C7: SendBatch outside batch mode, or with an empty queue, posts nothing,
\* returns nil and leaves every field of the client as it was (mode, queue,
\* lastError, lastHTTPCode). Logger and BoundMetrics.
C7_SendBatchNoop ==
    [][/\ BoundMetrics_SendBatch(Caller) /\ (Mode = "Idle" \/ BatchSize = 0) =>
            /\ pc'[Caller] = "idle" /\ ret'.op = "SendBatch" /\ ret'.err = NilErr
            /\ b' = b
       /\ Logger_SendBatch(Caller) /\ (~l.batchMode \/ LoggerBatchSize = 0) =>
            /\ pc'[Caller] = "idle" /\ ret'.op = "LoggerSendBatch" /\ ret'.err = NilErr
            /\ l' = l
      ]_vars

\* SendBatch returned nil on an emptied batch and left the record of the
\* earlier refused request in place.
C7_Witness ==
    /\ ret.op = "SendBatch" /\ ret.err = NilErr /\ ret.from = "SingleBatch"
    /\ BatchSize = 0 /\ b.lastError = ErrHTTP(500) /\ b.lastHTTPCode = 500

\* C8: in batch mode Log appends exactly its entry at the end of the queue,
\* returns nil and posts nothing; outside batch mode it makes one Post to
\* /logs and leaves the queue as it was, empty.
C8_LogQueuesOrSends ==
    [][/\ \A lv \in LogLevels, m \in LogMessages, t \in TagMaps :
            Logger_Log(Caller, lv, m, t) =>
                IF l.batchMode
                THEN /\ Len(l'.batchQueue) = Len(l.batchQueue) + 1
                     /\ SubSeq(l'.batchQueue, 1, Len(l.batchQueue)) = l.batchQueue
                     /\ l'.batchQueue[Len(l'.batchQueue)].Message = m
                     /\ l'.batchQueue[Len(l'.batchQueue)].Level = lv
                     /\ l'.batchMode
                     /\ pc'[Caller] = "idle" /\ ret'.op = "Log" /\ ret'.err = NilErr
                ELSE /\ pc'[Caller] = "log_post" /\ frame'[Caller].url = "/logs"
                     /\ Len(frame'[Caller].body) = 1
                     /\ frame'[Caller].body[1].Message = m /\ frame'[Caller].body[1].Level = lv
                     /\ l' = l /\ l.batchQueue = <<>>
       /\ pc[Caller] = "log_post" =>
            /\ l' = l /\ l.batchQueue = <<>>
            /\ pc'[Caller] \in {"log_post", "idle"}
      ]_vars

\* The second Log call of a batch was queued behind the first.
C8_Witness ==
    /\ ret.op = "Log" /\ ret.err = NilErr /\ ret.from = "Batch"
    /\ LoggerBatchSize = 2 /\ l.batchQueue[1].Level = "error" /\ l.batchQueue[2].Level = "info"

\* C9: Logger.BeginBatch enters batch mode with an empty queue, EndBatch
\* leaves batch mode with an empty queue, ClearBatch empties the queue and
\* keeps the mode, so a Log right after a ClearBatch in batch mode is queued
\* and BatchSize becomes 1.
C9_LoggerBatchTransitions ==
    [][/\ Logger_BeginBatch(Caller) => l'.batchMode /\ l'.batchQueue = <<>>
       /\ Logger_EndBatch(Caller) => ~l'.batchMode /\ l'.batchQueue = <<>>
       /\ Logger_ClearBatch(Caller) => l'.batchMode = l.batchMode /\ l'.batchQueue = <<>>
       /\ ret.op = "LoggerClearBatch" /\ ret.from = "Batch" /\ pc[Caller] = "idle"
            /\ (\E lv \in LogLevels, m \in LogMessages, t \in TagMaps : Logger_Log(Caller, lv, m, t)) =>
               /\ LoggerBatchSize' = 1 /\ pc'[Caller] = "idle" /\ ret'.err = NilErr
      ]_vars

\* ClearBatch was called in batch mode; the Logger is still in batch mode.
C9_Witness ==
    /\ ret.op = "LoggerClearBatch" /\ ret.from = "Batch"
    /\ l.batchMode /\ LoggerBatchSize = 0

C11_BoundedAttempts ==
    /\ [](h.loc # "idle" =>
            /\ h.attempts <= (IF h.MaxAttempts >= 1 THEN h.MaxAttempts ELSE 0)
            /\ h.attempts <= h.attempt + 1
            /\ h.waits = (IF h.MaxAttempts >= 1 /\ h.attempt = h.MaxAttempts THEN h.attempt - 1 ELSE h.attempt)
            /\ h.loc \in {"select", "wait"} =>
                 /\ h.delayIdx = h.attempt /\ h.attempt < h.MaxAttempts - 1
                 /\ \E r \in JitterDraws : h.delay \in calculateBackoff(h.retry, h.attempt, r)
            /\ h.loc = "returned" /\ h.result.err # NilErr /\ ~h.ctxDone /\ h.MaxAttempts >= 1 =>
                 /\ h.attempt = h.MaxAttempts
                 /\ h.bodyOK => h.attempts = h.MaxAttempts
                 /\ h.waits = h.MaxAttempts - 1
                 /\ h.result = [err |-> h.dr.err, status |-> NoCode]
                 /\ h.dr.err \in {ErrMarshal, ErrNetwork, ErrRead})
    /\ (h.loc \notin {"idle", "returned"}) ~> (h.loc = "returned")

\* Three attempts failed, two backoff waits ran out between them, and the
\* error of the third was returned.
C11_Witness ==
    /\ h.loc = "returned" /\ h.result.err = ErrNetwork /\ ~h.ctxDone
    /\ h.MaxAttempts = 3 /\ h.attempts = 3 /\ h.waits = 2 /\ h.delayIdx = 1

\* C12: when the context is cancelled while the call is parked in a backoff
\* wait, the next step of the call returns ctx.Err(): the wait is not counted
\* as run out and no further attempt is made.
C12_CancelDuringBackoff ==
    [][h.loc = "wait" /\ h.ctxDone =>
            /\ h.cancelAt = "wait"
            /\ h'.loc = "returned" /\ h'.result = [err |-> ErrCanceled, status |-> NoCode]
            /\ h'.attempts = h.attempts /\ h'.waits = h.waits /\ h'.attempt = h.attempt
      ]_vars

\* The call was cancelled in its first backoff wait and returned ctx.Err()
\* with two of its three attempts unused.
C12_Witness ==
    /\ h.loc = "returned" /\ h.cancelAt = "wait" /\ h.result.err = ErrCanceled
    /\ h.MaxAttempts = 3 /\ h.attempts = 1 /\ h.waits = 0

\* C13: a call whose context was cancelled while client.Do or the read of
\* the response was in flight, or while it was parked in a backoff wait, and
\* which then fails, returns ctx.Err() or an error wrapping it, at every
\* attempt index.
C13_CancellationError ==
    h.loc = "returned" /\ h.result.err # NilErr /\ h.cancelAt \in {"inflight", "read", "wait"}
    => IsCtxErr(h.result.err) /\ h.result.err \notin {ErrNetwork, ErrRead, ErrMarshal}

\* Cancelled during the last allowed attempt: the error of that attempt is
\* returned and it wraps ctx.Err().
C13_Witness ==
    /\ h.loc = "returned" /\ h.cancelAt = "inflight" /\ h.result.err = ErrDoCanceled
    /\ h.MaxAttempts = 3 /\ h.attempts = 3 /\ h.waits = 2

\* base * 2^i * (1 + r/4 * 0.3) clamped above by maxDelay, as real numbers
ClampedBackoff(retry, i, r) ==
    LET e == retry.BaseDelay.exp + i
    IN  IF e > retry.MaxDelay.exp \/ (e = retry.MaxDelay.exp /\ r > 0)
        THEN retry.MaxDelay
        ELSE Dur(e, 3 * r)

\* C14: the delay calculateBackoff returns for attempt index i never exceeds
\* MaxDelay, lies in [BaseDelay*2^i, BaseDelay*2^i*1.3) when that range is
\* below MaxDelay, and is min(MaxDelay, BaseDelay*2^i*(1+jitter)) for a jitter
\* in [0, 0.3).
C14_Original ==
    h.loc \in {"select", "wait"} =>
        /\ ~DurGreater(h.delay, h.retry.MaxDelay)
        /\ \E r \in JitterDraws : h.delay = ClampedBackoff(h.retry, h.delayIdx, r)
        /\ h.retry.BaseDelay.exp + h.delayIdx < h.retry.MaxDelay.exp =>
              /\ h.delay.k = "v" /\ h.delay.exp = h.retry.BaseDelay.exp + h.delayIdx
              /\ h.delay.f >= 0 /\ h.delay.f < 12

\* C15: every access to a shared field of one client happens under the
\* client's mutex: no two goroutines are ever about to store lastError
\* without it at the same time, and lastError is always a string that one of
\* the calls stored.
C15_Original ==
    /\ \A g1, g2 \in Goroutines :
          PoisedAtUnlockedStore(g1) /\ PoisedAtUnlockedStore(g2) => g1 = g2
    /\ b.lastError # ErrTorn

PostLocs == {"send_post", "sb_post", "log_post", "lsb_post"}

\* C16: while a goroutine has a request in flight (Send, SendBatch or Log at
\* its Post), the client's mutex is not held, so every operation another
\* goroutine starts can take the mutex and complete: BeginBatch, Add,
\* AddMetric, EndBatch, ClearBatch and, on a Logger, Log in batch mode.
C16_NoLockAcrossPost ==
    \A g \in Threads : pc[g] \in PostLocs =>
        /\ b.mu = Unlocked /\ l.mu = Unlocked
        /\ \A u \in Threads \ {g} : pc[u] = "idle" =>
              IF client = "BoundMetrics"
              THEN /\ ENABLED BoundMetrics_BeginBatch(u, "cpu", "ms")
                   /\ ENABLED BoundMetrics_BeginMultiBatch(u)
                   /\ ENABLED BoundMetrics_EndBatch(u)
                   /\ ENABLED BoundMetrics_ClearBatch(u)
                   /\ BatchSize < MaxMetricQueue \/ AddRejected => ENABLED BoundMetrics_Add(u, 1, NilMap)
                   /\ BatchSize < MaxMetricQueue \/ AddMetricRejected =>
                        ENABLED BoundMetrics_AddMetric(u, "cpu", 1, "ms", NilMap)
              ELSE /\ ENABLED Logger_BeginBatch(u)
                   /\ ENABLED Logger_EndBatch(u)
                   /\ ENABLED Logger_ClearBatch(u)
                   /\ LoggerBatchSize < MaxLogQueue \/ ~l.batchMode => ENABLED (Logger_Log(u, "info", "m1", NilMap) /\ UNCHANGED <<mw, sg>>)

\* C16 as stated: the mutex is free while a request is in flight, and after
\* its POST a SendBatch takes the mutex again only to clear the queue on
\* success.
C16_Original ==
    /\ [](\A g \in Threads : pc[g] \in PostLocs => b.mu = Unlocked /\ l.mu = Unlocked)
    /\ [][\A g \in Threads :
            /\ BoundMetrics_SendBatchCode(g) => StatusOK(frame[g].status) /\ b'.batchQueue = <<>>
            /\ Logger_SendBatchClear(g) => StatusOK(frame[g].status) /\ l'.batchQueue = <<>>
         ]_vars

\* While one goroutine's SendBatch had its POST in flight, the other queued
\* an entry.
C16_Witness ==
    /\ client = "Logger" /\ pc["g1"] = "lsb_post" /\ pc["g2"] = "idle"
    /\ LoggerBatchSize = 2 /\ Len(frame["g1"].body) = 1

\* C17 as stated: outside batch mode Log returns nil exactly when the status
\* of the response is 2xx, and an error naming the status otherwise.
C17_Original ==
    [][\A o \in PostOutcomes :
          Logger_sendLog(Caller, o) /\ o.err = NilErr =>
              ret'.err = (IF o.status >= 200 /\ o.status < 300 THEN NilErr ELSE ErrStatus(o.status))
      ]_vars

\* C17 as amended: outside batch mode Log returns nil exactly when the status
\* of the response is 200 or 201, an error naming the status for every other
\* status, and the error of the transport when the Post failed.
C17_LogStatusMapping ==
    [][\A o \in PostOutcomes :
          Logger_sendLog(Caller, o) =>
              /\ ret'.op = "Log" /\ ret'.from = "Immediate" /\ pc'[Caller] = "idle"
              /\ ret'.err = (IF o.err # NilErr THEN o.err
                             ELSE IF o.status \in {200, 201} THEN NilErr
                             ELSE "failed with status " \o ToString(o.status))
      ]_vars

\* A Log call outside batch mode was answered 204 and returned an error.
C17_Witness ==
    /\ ret.op = "Log" /\ ret.from = "Immediate" /\ ret.err = ErrStatus(204)
    /\ LoggerBatchSize = 0

\* C18: the Logger WithContext(extra) returns has as context the union of
\* the receiver's context and extra, extra winning on a shared key; no step
\* (a WithContext on any Logger of the family, a GetContext, a write to a
\* map GetContext returned) changes the context of a Logger that exists; and
\* GetContext returns the receiver's context.
C18_ContextUnion ==
    [][/\ \A i \in 1..MaxLoggers, extra \in {NilMap, Map1("a", "1"), Map1("b", "2"), Map1("a", "3")} :
            Logger_WithContext(Caller, i, extra, MaxLoggers) =>
                LET made == fam'.maps[fam'.loggers[Len(fam'.loggers)].logCtx]
                IN  /\ Len(fam'.loggers) = Len(fam.loggers) + 1
                    /\ DOMAIN made = DOMAIN CtxOf(i) \cup DOMAIN extra.kv
                    /\ \A k \in DOMAIN made :
                          made[k] = IF k \in DOMAIN extra.kv THEN extra.kv[k] ELSE CtxOf(i)[k]
       /\ \A j \in 1..Len(fam.loggers) :
            /\ DOMAIN CtxOf(j)' = DOMAIN CtxOf(j)
            /\ \A k \in DOMAIN CtxOf(j) : CtxOf(j)'[k] = CtxOf(j)[k]
       /\ \A i \in 1..MaxLoggers :
            Logger_GetContext(Caller, i) =>
                \E ref \in fam'.held :
                    /\ DOMAIN fam'.maps[ref] = DOMAIN CtxOf(i)
                    /\ \A k \in DOMAIN CtxOf(i) : fam'.maps[ref][k] = CtxOf(i)[k]
      ]_vars

\* WithContext({a:1}), WithContext({b:2}), WithContext({a:3}) chained from the
\* root: contexts {}, {a:1}, {a:1,b:2} and {a:3,b:2}.
C18_Witness ==
    /\ Len(fam.loggers) = 4
    /\ \A i \in 2..4 : fam.loggers[i].parent = i - 1
    /\ DOMAIN CtxOf(1) = {}
    /\ DOMAIN CtxOf(2) = {"a"} /\ CtxOf(2)["a"] = "1"
    /\ DOMAIN CtxOf(3) = {"a", "b"} /\ CtxOf(3)["a"] = "1" /\ CtxOf(3)["b"] = "2"
    /\ DOMAIN CtxOf(4) = {"a", "b"} /\ CtxOf(4)["a"] = "3" /\ CtxOf(4)["b"] = "2"

\* C19: the Logger WithContext returns is out of batch mode with an empty
\* queue whatever the receiver's batch mode and queue are, and no call on one
\* Logger of the family changes the batch mode or the queue of another.
C19_BatchStateNotShared ==
    [][/\ \A extra \in {NilMap, MapA1B2} :
            Logger_WithContext(Caller, 1, extra, 2) =>
                /\ ~fam'.loggers[2].batchMode /\ fam'.loggers[2].batchQueue = <<>>
                /\ fam'.loggers[2].parent = 1
                /\ LoggerAt(1)' = LoggerAt(1)
       /\ \A j \in 1..Len(fam.loggers) :
            j # fam.cur \/ fam'.cur # fam.cur => LoggerAt(j)' = LoggerAt(j)
      ]_vars

\* The parent is in batch mode with two entries queued; the Logger derived
\* from it is in batch mode with one entry of its own.
C19_Witness ==
    /\ Len(fam.loggers) = 2 /\ fam.cur = 2
    /\ l.batchMode /\ LoggerBatchSize = 1
    /\ fam.loggers[1].batchMode /\ Len(fam.loggers[1].batchQueue) = 2

\* C20: the tags of the entry a Log call makes are the Logger's context
\* overridden by the call's tags; with both empty (nil or zero-length) the
\* entry has nil tags and the tags field is not on the wire, and otherwise
\* it is.
C20_MergedTags ==
    [][\A t \in {NilMap, EmptyMap, Map1("a", "9")} :
          Logger_Log(Caller, "info", "m1", t) =>
              LET entry == IF l.batchMode THEN l'.batchQueue[Len(l'.batchQueue)]
                                          ELSE frame'[Caller].body[1]
              IN  IF DOMAIN LogCtx = {} /\ DOMAIN t.kv = {}
                  THEN entry.Tags = NilMap /\ "tags" \notin WireFields(entry)
                  ELSE /\ ~entry.Tags.isNil /\ "tags" \in WireFields(entry)
                       /\ DOMAIN entry.Tags.kv = DOMAIN LogCtx \cup DOMAIN t.kv
                       /\ \A k \in DOMAIN entry.Tags.kv :
                             entry.Tags.kv[k] = IF k \in DOMAIN t.kv THEN t.kv[k] ELSE LogCtx[k]
      ]_vars

\* On a Logger with context {a:1,b:2}, a call with tags {a:9} queued an entry
\* tagged {a:9,b:2} behind one with the context alone.
C20_Witness ==
    /\ fam.cur = 2 /\ LogCtx = MapA1B2.kv /\ LoggerBatchSize = 2
    /\ l.batchQueue[1].Tags.kv = MapA1B2.kv
    /\ l.batchQueue[2].Tags.kv["a"] = "9" /\ l.batchQueue[2].Tags.kv["b"] = "2"

\* C21: every message a Logger transmits is at most maxMessageBytes long plus
\* the truncation marker, whichever caller produced it (a direct Log call,
\* the middleware, the slog bridge).
C21_Original ==
    \A g \in Goroutines :
        pc[g] = "log_post" =>
            ByteLen(frame[g].body[1].Message) <= maxMessageBytes + TruncatedMarker.n

\* C22: truncateMessage returns a message of at most maxMessageBytes bytes
\* unchanged; of a longer message it returns a prefix of at most
\* maxMessageBytes bytes that is valid UTF-8 (it ends between two
\* characters), followed by the marker.
C22_TruncateMessage ==
    [][SlogHandler_forward(Caller) =>
          LET m == sg.st[Caller].record.Message
              out == frame'[Caller].body[1].Message
              keep == SubSeq(out, 1, Len(out) - 1)
          IN  IF ByteLen(m) <= maxMessageBytes
              THEN out = m
              ELSE /\ Len(out) >= 1 /\ out[Len(out)] = TruncatedMarker
                   /\ ByteLen(keep) <= maxMessageBytes
                   /\ keep = Prefix(m, ByteLen(keep))
                   /\ ValidString(keep)
      ]_vars

\* A message whose 3-byte character begins at byte maxMessageBytes - 1 was
\* forwarded: the character is left out whole.
C22_Witness ==
    /\ sg.st[Caller].loc = "fwd" /\ pc[Caller] = "log_post"
    /\ sg.st[Caller].record.Message =
          Bytes("a", maxMessageBytes - 2, "") \o Bytes("L3", 1, "") \o Bytes("c", 2, "") \o Bytes("a", 4, "")
    /\ frame[Caller].body[1].Message = Bytes("a", maxMessageBytes - 2, "") \o <<TruncatedMarker>>

\* C23: a request on a path that is not ignored, served with LogRequests on
\* and a Logger set, has handed exactly one entry to the Logger when
\* ServeHTTP returns, whatever the wrapped handler did; the entry's message
\* contains the method, the path and the status, and its tags are
\* http_method, http_path, http_status, duration_ms and source.
C23_Original ==
    \A g \in Goroutines :
        LET r == mw.req[g]
        IN  ~r.skip /\ mw.config.LogRequests /\ mw.config.Logger =>
               /\ r.loc = "done" => r.logs = 1
               /\ r.loc = "logged" /\ pc[g] = "log_post" =>
                     LET entry == frame[g].body[1]
                     IN  /\ \E i \in 1..Len(entry.Message) : entry.Message[i] = Bytes("a", 3, r.method)[1]
                         /\ \E i \in 1..Len(entry.Message) : entry.Message[i] = r.path[1]
                         /\ \E i \in 1..Len(entry.Message) :
                               entry.Message[i] = Bytes("a", 3, ToString(r.status))[1]
                         /\ DOMAIN entry.Tags.kv =
                               {"http_method", "http_path", "http_status", "duration_ms", "source"}
                         /\ entry.Tags.kv["source"] = "http_middleware"

\* C24: the severity of the request's log entry is error for a recorded
\* status of 500 or more, warn for one from 400 to 499, info for any other.
C24_SeverityFromStatus ==
    [][\A g \in Goroutines :
          Middleware_logRequest(g) =>
              LET status == mw.req[g].status
                  level == frame'[g].body[1].Level
              IN  /\ status >= 500 => level = "error"
                  /\ status >= 400 /\ status <= 499 => level = "warn"
                  /\ status < 400 => level = "info"
      ]_vars

\* The entry of a request answered with status 500 is in flight, at error.
C24_Witness ==
    /\ mw.req[Caller].loc = "logged" /\ pc[Caller] = "log_post"
    /\ mw.req[Caller].status = 500
    /\ frame[Caller].body[1].Level = "error"

\* C25: when the wrapped handler panics, the response the client gets has
\* status 500, wherever in the handler the panic is raised.
C25_Original ==
    \A g \in Goroutines :
        mw.req[g].loc = "done" /\ mw.req[g].panicked => mw.req[g].w = 500

\* C26: a request on a path of IgnorePaths runs the wrapped handler on the
\* client's ResponseWriter itself, and ServeHTTP returns with no entry handed
\* to the Logger, no resolution started and no metric sent: the Logger, the
\* BoundMetrics and the entity state of the middleware are unchanged.
C26_IgnoredPathUntouched ==
    [][\A g \in Goroutines, c \in {200, 404, 500} :
          Middleware_ServeHTTP(g, "GET", Bytes("a", 7, "/health"), <<[op |-> "WriteHeader", code |-> c]>>) =>
              /\ mw'.req[g].loc = "done" /\ mw'.req[g].skip
              /\ mw'.req[g].w = c /\ ~mw'.req[g].wroteHeader
              /\ mw'.req[g].logs = 0 /\ mw'.req[g].sends = 0 /\ mw'.req[g].resolved = "none"
              /\ UNCHANGED <<l, b, pc, frame>>
              /\ mw'.mu = mw.mu /\ mw'.entityDone = mw.entityDone
              /\ mw'.boundMetrics = mw.boundMetrics
      ]_vars

\* With logging and metrics on and both collaborators set, a request on
\* /health was answered 404 by the handler and is over.
C26_Witness ==
    /\ mw.config = [LogRequests |-> TRUE, LogMetrics |-> TRUE, Logger |-> TRUE, Metrics |-> TRUE]
    /\ mw.req[Caller].loc = "done" /\ mw.req[Caller].skip
    /\ mw.req[Caller].w = 404 /\ mw.req[Caller].logs = 0
    /\ ~mw.entityDone

\* C27: at most one goroutine is inside GetOrCreateEntity at any time; once
\* a resolution has succeeded entityDone and boundMetrics never change, no
\* resolution is started, and every request that did not itself run a
\* failed resolution sends its metric through the bound client.
C27_OneResolution ==
    /\ [](Cardinality({g \in Goroutines : mw.req[g].loc = "resolving"}) <= 1)
    /\ [][/\ mw.entityDone =>
               /\ mw'.entityDone /\ mw'.boundMetrics = mw.boundMetrics
               /\ \A g \in Goroutines : mw'.req[g].loc # "resolving"
           /\ \A g \in Goroutines :
                 /\ mw.req[g].loc = "check" /\ mw'.req[g].loc # "check"
                 /\ mw.req[g].resolved # "failed"
                 => mw'.req[g].loc = "sent" /\ mw.boundMetrics = "bound"
       ]_vars

\* g1 is inside GetOrCreateEntity and g2 has reached ensureEntity.
C27_Witness ==
    /\ mw.req["g1"].loc = "resolving" /\ mw.mu = "g1"
    /\ mw.req["g2"].loc = "metric"

\* C28: a request whose entity resolution failed sends no metric.
C28_Original ==
    \A g \in Goroutines : mw.req[g].resolved = "failed" => mw.req[g].sends = 0

\* C29: a Handle call made on a goroutine that is inside a Handle call
\* forwards nothing to the Logger and returns nil; a Handle call made on a
\* goroutine that is in no Handle call is accepted and can go on to the
\* Logger, whatever calls are running on other goroutines.
C29_NestedDroppedOthersFree ==
    /\ [](\A g \in Threads :
            /\ sg.st[g].loc = "out" /\ pc[g] = "idle" =>
                  ENABLED SlogHandler_Handle(g, TRUE, [Message |-> Bytes("a", 7, ""), Level |-> 0])
            /\ sg.st[g].loc = "prep" => ENABLED SlogHandler_forward(g))
    /\ [][\A g \in Threads, lg \in BOOLEAN, lv \in {-1, 0, 3, 4, 7, 8} :
            SlogHandler_Handle(g, lg, [Message |-> Bytes("a", 7, ""), Level |-> lv]) =>
                IF sg.st[g].loc = "out"
                THEN sg'.st[g].loc = "prep" /\ goroutineID(g) \in sg'.sending
                ELSE /\ UNCHANGED <<l, pc, frame>>
                     /\ sg'.st[g].loc = sg.st[g].loc
                     /\ sg'.st[g].dropped = sg.st[g].dropped + 1
                     /\ sg'.st[g].result = NilErr
       ]_vars

\* Both goroutines are inside Handle with their posts in flight, and a
\* nested call on g1 was refused.
C29_Witness ==
    /\ \A g \in Threads : sg.st[g].loc = "fwd" /\ pc[g] = "log_post"
    /\ sg.st["g1"].dropped = 1 /\ sg.st["g1"].result = NilErr

\* C30: slogSending holds the ids of the goroutines that are inside a
\* Handle call past its LoadOrStore, and no other: the id is removed when
\* the call ends (the Logger call returned with or without an error, or a
\* panic was recovered), and a refused nested call leaves it in place.
C30_GuardSetIsCallsInProgress ==
    sg.sending = {goroutineID(g) : g \in {u \in Goroutines : sg.st[u].loc # "out"}}

\* g1's Handle call has returned, g2 is inside one that refused a nested call.
C30_Witness ==
    /\ sg.st["g1"].loc = "out" /\ sg.st["g1"].result = NilErr
    /\ sg.st["g2"].loc = "fwd" /\ sg.st["g2"].dropped = MaxNested
    /\ sg.sending = {goroutineID("g2")}

\* C31: every Handle call returns nil and no panic leaves it: a call the
\* guard refused, a call whose Logger call returned (with an error or
\* without), a call that panicked while it prepared the record, and a call
\* on a handler whose Logger is nil. The call's id is out of slogSending
\* when the call is over.
C31_HandleReturnsNil ==
    /\ [](\A g \in Goroutines : sg.st[g].result \in {"none", NilErr})
    /\ [][\A g \in Goroutines :
            sg.st[g].loc # "out" /\ sg'.st[g].loc = "out" =>
                sg'.st[g].result = NilErr /\ goroutineID(g) \notin sg'.sending
       ]_vars

\* g1's call on a handler with a nil Logger is over and returned nil, while
\* g2's call on a handler with a Logger has its post in flight.
C31_Witness ==
    /\ sg.st["g1"].loc = "out" /\ ~sg.st["g1"].logger /\ sg.st["g1"].result = NilErr
    /\ sg.st["g2"].loc = "fwd" /\ sg.st["g2"].logger /\ pc["g2"] = "log_post"

\* C32: the entry the bridge forwards has severity error for a record level
\* of slog.LevelError (8) or more, warn for a level from slog.LevelWarn (4)
\* up to 7, info for a level from slog.LevelInfo (0) up to 3, and debug for
\* every level below 0.
C32_LevelThresholds ==
    [][\A g \in Goroutines :
          SlogHandler_forward(g) /\ sg.st[g].logger =>
              LET level == sg.st[g].record.Level
                  severity == frame'[g].body[1].Level
              IN  /\ level >= 8 => severity = "error"
                  /\ level >= 4 /\ level < 8 => severity = "warn"
                  /\ level >= 0 /\ level < 4 => severity = "info"
                  /\ level < 0 => severity = "debug"
      ]_vars

\* A record of level 7 is in flight at warn, one of level -1 at debug.
C32_Witness ==
    /\ sg.st["g1"].loc = "fwd" /\ pc["g1"] = "log_post"
    /\ sg.st["g1"].record.Level = 7 /\ frame["g1"].body[1].Level = "warn"
    /\ sg.st["g2"].loc = "fwd" /\ pc["g2"] = "log_post"
    /\ sg.st["g2"].record.Level = -1 /\ frame["g2"].body[1].Level = "debug"

\* C33 as stated: whenever no call is in progress on an instance, its
\* lastHTTPCode is -1 if the instance obtained no response yet, and else the
\* status code of the response it obtained most recently.
C33_Original ==
    /\ pc[Caller] = "idle" => metrics.lastHTTPCode = lastResponse.Metrics
    /\ (\A g \in Threads : pc[g] = "idle") => b.lastHTTPCode = lastResponse.BoundMetrics

\* C33 as amended: lastHTTPCode is -1 until an operation records a response
\* and then the status code of the response recorded last. An operation that
\* obtained a response records its status before it returns (Send and
\* SendBatch in a critical section of their own after the POST), and nothing
\* else changes lastHTTPCode: not a mode error, a transport error, a no-op
\* SendBatch, Add, AddMetric, BeginBatch, EndBatch or ClearBatch. For the
\* calls one goroutine makes one after another on a Metrics that is the
\* response obtained most recently.
C33_LastRecordedCode ==
    /\ [](pc[Caller] = "idle" => metrics.lastHTTPCode = lastResponse.Metrics)
    /\ [][ /\ b'.lastHTTPCode # b.lastHTTPCode =>
                \E g \in Threads : /\ pc[g] \in {"send_code", "sb_code"} /\ pc'[g] # pc[g]
                                    /\ frame[g].status # NoCode
           /\ \A g \in Threads :
                 /\ pc[g] \in {"send_code", "sb_code"} /\ pc'[g] # pc[g] =>
                       b'.lastHTTPCode = frame[g].status
                 /\ pc[g] \in {"send_post", "sb_post"} /\ pc'[g] # pc[g] =>
                       \/ /\ pc'[g] = (IF pc[g] = "send_post" THEN "send_code" ELSE "sb_code")
                          /\ frame'[g].status = lastResponse'.BoundMetrics
                       \/ /\ pc'[g] = (IF pc[g] = "send_post" THEN "send_err" ELSE "sb_err")
                          /\ UNCHANGED lastResponse
                 /\ pc'[g] \in {"send_status", "sb_status"} /\ pc'[g] # pc[g] =>
                       pc[g] = (IF pc'[g] = "send_status" THEN "send_code" ELSE "sb_code")
           /\ metrics'.lastHTTPCode # metrics.lastHTTPCode =>
                 /\ pc[Caller] \in {"gbn_get", "ce_post"}
                 /\ lastResponse'.Metrics = metrics'.lastHTTPCode
       ]_vars

\* g2's Send has recorded its 500 while the 200 that g1's SendBatch obtained
\* is not recorded yet, and the Metrics has recorded a 200.
C33_Witness ==
    /\ b.lastHTTPCode = 500 /\ pc["g2"] = "idle"
    /\ pc["g1"] = "sb_code" /\ frame["g1"].status = 200
    /\ metrics.lastHTTPCode = 200 /\ pc[Caller] = "idle"

\* C34: GetOrCreateEntity first issues the lookup and nothing else. A lookup
\* answered 200 with an id ends the call: the entity found is returned and no
\* create request was issued. Any other lookup outcome (another status, no
\* id, a body that is no JSON, a transport error) is followed by one create
\* request, and the call returns what that request gave.
C34_LookupThenCreate ==
    [][/\ Metrics_request(Caller, "GetOrCreateEntity") =>
             pc'[Caller] = "gbn_get" /\ metrics'.gets = 1 /\ metrics'.posts = 0
       /\ \A o \in PostOutcomes, body \in {"id", "noid", "malformed"} :
             /\ metrics.op = "GetOrCreateEntity" /\ Metrics_GetEntityByName(Caller, o, body) =>
                   IF o.err = NilErr /\ o.status = 200 /\ body = "id"
                   THEN /\ pc'[Caller] = "idle" /\ ret'.err = NilErr
                        /\ metrics'.result = [entity |-> "e1", err |-> NilErr]
                        /\ metrics'.gets = 1 /\ metrics'.posts = 0
                   ELSE /\ pc'[Caller] = "ce_post"
                        /\ metrics'.gets = 1 /\ metrics'.posts = 1
             /\ metrics.op = "GetOrCreateEntity" /\ Metrics_CreateEntity(Caller, o, body) =>
                   /\ pc'[Caller] = "idle"
                   /\ metrics'.gets = 1 /\ metrics'.posts = 1
                   /\ metrics'.result.err = ret'.err
                   /\ metrics'.result.entity =
                         (IF o.err = NilErr /\ o.status \in {200, 201} /\ body = "id" THEN "e2" ELSE "")
                   /\ ret'.err =
                         (IF o.err # NilErr THEN o.err
                          ELSE IF o.status \notin {200, 201} THEN ErrStatus(o.status)
                          ELSE IF body = "malformed" THEN "unexpected end of JSON input"
                          ELSE IF body = "noid" THEN "no entity ID in response"
                          ELSE NilErr)
      ]_vars

\* A GetOrCreateEntity whose lookup was answered 200 without an id returned
\* the entity its create request made.
C34_Witness ==
    /\ metrics.op = "GetOrCreateEntity" /\ pc[Caller] = "idle"
    /\ metrics.lookup = [entity |-> "", err |-> "no entity ID in response"]
    /\ metrics.gets = 1 /\ metrics.posts = 1
    /\ metrics.result = [entity |-> "e2", err |-> NilErr]

\* C35: the payload SendBatch posts fits the mode its entries were queued
\* in. In single-metric mode the envelope has the name of the BeginBatch call
\* that started the batch, every entry was queued by an Add under that name
\* and unit, and no entry of the payload has a name. In multi-metric mode the
\* envelope has no name and every entry has the name and unit of its
\* AddMetric call. The queue never holds entries of an earlier batch or of
\* the other mode.
C35_PayloadFitsMode ==
    [][/\ \A g \in Threads :
             BoundMetrics_SendBatch(g) /\ pc'[g] = "sb_post" =>
                 LET payload == frame'[g]
                 IN  /\ Len(payload.body) = Len(b.batchQueue)
                     /\ IF ~b.multiBatchMode
                        THEN /\ payload.name = b.batchMetricName /\ payload.name \in MetricNames
                             /\ \A i \in DOMAIN payload.body :
                                   /\ payload.body[i].Name = ""
                                   /\ payload.body[i].Unit = b.batchUnit
                                   /\ b.batchQueue[i].Name = b.batchMetricName
                                   /\ b.batchQueue[i].Unit = b.batchUnit
                                   /\ b.batchQueue[i].Value = 1
                        ELSE /\ payload.name = ""
                             /\ \A i \in DOMAIN payload.body :
                                   /\ payload.body[i].Name = b.batchQueue[i].Name
                                   /\ payload.body[i].Name \in MetricNames
                                   /\ payload.body[i].Unit = b.batchQueue[i].Unit
                                   /\ b.batchQueue[i].Value = 2
       /\ \A g \in Threads, n \in MetricNames, u \in {"ms", "pct"} :
             /\ BoundMetrics_BeginBatch(g, n, u) =>
                   /\ b'.batchMetricName = n /\ b'.batchUnit = u
                   /\ b'.batchMode /\ ~b'.multiBatchMode /\ b'.batchQueue = <<>>
             /\ BoundMetrics_AddMetric(g, n, 2, u, NilMap) /\ ret'.err = NilErr /\ b.multiBatchMode =>
                   /\ Len(b'.batchQueue) = Len(b.batchQueue) + 1
                   /\ SubSeq(b'.batchQueue, 1, Len(b.batchQueue)) = b.batchQueue
                   /\ b'.batchQueue[Len(b'.batchQueue)].Name = n
                   /\ b'.batchQueue[Len(b'.batchQueue)].Unit = u
       /\ b'.batchMetricName # b.batchMetricName \/ b'.batchUnit # b.batchUnit
             \/ b'.multiBatchMode # b.multiBatchMode => b'.batchQueue = <<>>
      ]_vars

\* A single-metric batch of two values of "mem" in "pct" is being posted: the
\* name is on the envelope only.
C35_Witness ==
    /\ pc["g1"] = "sb_post" /\ frame["g1"].name = "mem"
    /\ Len(frame["g1"].body) = 2
    /\ \A i \in 1..2 : frame["g1"].body[i].Name = "" /\ frame["g1"].body[i].Unit = "pct"

\* C36: the status the middleware records for a request that its handler
\* answered is the status committed to the client: 200 when the handler wrote
\* no header of its own, the code of its first WriteHeader otherwise.
C36_Original ==
    \A g \in Goroutines :
        LET r == mw.req[g]
        IN  r.loc # "none" /\ ~r.skip /\ ~r.panicked =>
                r.status = IF r.w = 0 THEN 200 ELSE r.w

\* C37: every entry a successful SendBatch removes from the queue of a shared
\* BoundMetrics or Logger is in the payload that call posted, whatever the
\* other goroutines queue meanwhile: the entries of the queue it clears can
\* be matched one to one with entries of its payload.
C37_Original ==
    [][\A g \in Threads :
         /\ BoundMetrics_SendBatchStatus(g) /\ pc'[g] = "sb_done" =>
               \E f \in [DOMAIN b.batchQueue -> DOMAIN frame[g].body] :
                   /\ \A i, j \in DOMAIN b.batchQueue : f[i] = f[j] => i = j
                   /\ \A i \in DOMAIN b.batchQueue :
                         /\ frame[g].body[f[i]].Value = b.batchQueue[i].Value
                         /\ frame[g].body[f[i]].Tags = b.batchQueue[i].Tags
         /\ Logger_SendBatchClear(g) =>
               \E f \in [DOMAIN l.batchQueue -> DOMAIN frame[g].body] :
                   /\ \A i, j \in DOMAIN l.batchQueue : f[i] = f[j] => i = j
                   /\ \A i \in DOMAIN l.batchQueue : frame[g].body[f[i]] = l.batchQueue[i]
      ]_vars

\* C38: an entry accepted into the queue of a shared BoundMetrics is in the
\* payload of one successful batch POST at most: no two SendBatch calls whose
\* POST was answered 200 or 201 hold the same entry in their payloads.
C38_Original ==
    \A g1, g2 \in Threads :
        /\ g1 # g2
        /\ pc[g1] \in {"sb_code", "sb_status", "sb_done"} /\ StatusOK(frame[g1].status)
        /\ pc[g2] \in {"sb_code", "sb_status", "sb_done"} /\ StatusOK(frame[g2].status)
        => \A i \in DOMAIN frame[g1].body, j \in DOMAIN frame[g2].body :
               frame[g1].body[i].Value # frame[g2].body[j].Value

\* C39: a Post or Get call that returns a nil error returns a response, for
\* every value of MaxAttempts.
C39_Original ==
    h.loc = "returned" /\ h.result.err = NilErr => h.result.status # NoCode

\* C40: a batch payload holds the entries of the queue in the order of the
\* queue, each one once, and the queue holds them in the order of the calls
\* that appended them: an accepted Log, Add or AddMetric puts its entry after
\* the entries already queued and leaves those as they are, and a payload in
\* flight is not changed.
C40_PayloadKeepsOrder ==
    [][/\ BoundMetrics_SendBatch(Caller) /\ pc'[Caller] = "sb_post" =>
             /\ Len(frame'[Caller].body) = Len(b.batchQueue)
             /\ \A i \in DOMAIN b.batchQueue :
                   /\ frame'[Caller].body[i].Value = b.batchQueue[i].Value
                   /\ frame'[Caller].body[i].Unit = b.batchQueue[i].Unit
                   /\ frame'[Caller].body[i].Tags = b.batchQueue[i].Tags
                   /\ b.multiBatchMode => frame'[Caller].body[i].Name = b.batchQueue[i].Name
       /\ Logger_SendBatch(Caller) /\ pc'[Caller] = "lsb_post" =>
             frame'[Caller].body = l.batchQueue
       /\ pc[Caller] \in {"sb_post", "lsb_post"} /\ pc'[Caller] # "idle" =>
             frame'[Caller].body = frame[Caller].body
       /\ \A v \in MetricValues, t \in {NilMap, EmptyMap} :
             BoundMetrics_Add(Caller, v, t) /\ ret'.err = NilErr =>
                 /\ Len(b'.batchQueue) = Len(b.batchQueue) + 1
                 /\ SubSeq(b'.batchQueue, 1, Len(b.batchQueue)) = b.batchQueue
                 /\ b'.batchQueue[Len(b'.batchQueue)].Value = v
       /\ \A n \in MetricNames, v \in MetricValues, t \in {NilMap, EmptyMap} :
             BoundMetrics_AddMetric(Caller, n, v, "ms", t) /\ ret'.err = NilErr =>
                 /\ Len(b'.batchQueue) = Len(b.batchQueue) + 1
                 /\ SubSeq(b'.batchQueue, 1, Len(b.batchQueue)) = b.batchQueue
                 /\ b'.batchQueue[Len(b'.batchQueue)].Value = v
                 /\ b'.batchQueue[Len(b'.batchQueue)].Name = n
       /\ \A lv \in {"info", "error"}, t \in {NilMap, OneTag} :
             Logger_Log(Caller, lv, "m1", t) /\ l.batchMode =>
                 /\ Len(l'.batchQueue) = Len(l.batchQueue) + 1
                 /\ SubSeq(l'.batchQueue, 1, Len(l.batchQueue)) = l.batchQueue
                 /\ l'.batchQueue[Len(l'.batchQueue)].Level = lv
       /\ b'.batchQueue # b.batchQueue =>
             \/ b'.batchQueue = <<>>
             \/ SubSeq(b'.batchQueue, 1, Len(b.batchQueue)) = b.batchQueue
       /\ l'.batchQueue # l.batchQueue =>
             \/ l'.batchQueue = <<>>
             \/ SubSeq(l'.batchQueue, 1, Len(l.batchQueue)) = l.batchQueue
      ]_vars

\* A Logger batch is in flight whose error entry was queued before its info
\* entry.
C40_Witness ==
    /\ pc[Caller] = "lsb_post" /\ Len(frame[Caller].body) = 2
    /\ frame[Caller].body[1].Level = "error" /\ frame[Caller].body[2].Level = "info"
    /\ l.batchQueue = frame[Caller].body

====
